---- MODULE Spec2Model ----
(***************************************************************************)
(* Semantic identification and query engine of chrome-devtools-mcp:        *)
(* the sem_snapshot and sem_query tools (src/unnamed/part_001).            *)
(*                                                                         *)
(* JavaScript strings are sequences of one-character strings, so that      *)
(* toLowerCase, includes, trim, parseInt and toString are computed and not *)
(* assumed.  A JavaScript number is a record [nan, val].  SHA-256 is       *)
(* idealised as a collision-free (injective) encoding of its input.        *)
(***************************************************************************)
EXTENDS Integers, Sequences, FiniteSets, TLC

(* ------------------------------ bounds -------------------------------- *)

\* Trees of up to MaxTreeNodes nodes are enumerated with every shape and
\* every assignment of node kinds; the kind "val" (a node with a value and
\* nothing else) is assigned in trees of up to MaxValTreeNodes nodes.
MaxTreeNodes == 3
MaxValTreeNodes == 2
\* Chains (each node the only child of the previous one) of buttons, longer
\* than MaxTreeNodes and up to MaxChain nodes, are enumerated as well.
MaxChain == 6
\* Stars (a button with buttons without children below it) larger than
\* MaxTreeNodes and of up to MaxStar nodes are enumerated as well.
MaxStar == 6
\* max_nodes of sem_snapshot ranges over 1..MaxMaxNodes.
MaxMaxNodes == 2
\* max of sem_query ranges over 1..MaxMax.
MaxMax == 2
MaxCalls == 2
\* A client follows next_cursor for up to MaxFollow calls in a row: more than
\* any enumerated tree has nodes.
MaxFollow == 7

(* -------------------------- string literals --------------------------- *)

sEmpty == <<>>
sButton == <<"b", "u", "t", "t", "o", "n">>
sLink == <<"l", "i", "n", "k">>
sSubmit == <<"S", "u", "b", "m", "i", "t">>
sSubmitForm == <<"S", "u", "b", "m", "i", "t", " ", "f", "o", "r", "m">>
sButtUpper == <<"B", "U", "T", "T">>
sSubmitLower == <<"s", "u", "b", "m", "i", "t">>
sSub == <<"s", "u", "b">>
sForm == <<"f", "o", "r", "m">>
sNoRole == <<"n", "o", "n", "e", "x", "i", "s", "t", "e", "n", "t", "-", "r", "o", "l", "e", "-", "x", "y", "z">>
sDisabled == <<"d", "i", "s", "a", "b", "l", "e", "d">>
sDisabledCap == <<"D", "i", "s", "a", "b", "l", "e", "d">>
sTrue == <<"t", "r", "u", "e">>
sTrueUpper == <<"T", "R", "U", "E">>
sFalse == <<"f", "a", "l", "s", "e">>
sAbc == <<"a", "b", "c">>
sFortyTwo == <<"4", "2">>
sBlank == <<" ">>
sFrame == <<"f", "2">>
sButtonSegment == <<"b", "u", "t", "t", "o", "n", "[", "0", "]">>
sLinkSegment == <<"l", "i", "n", "k", "[", "1", "]">>
sUpButton == <<".", ".", "/", "b", "u", "t", "t", "o", "n">>
sUpButtonSegment == <<".", ".", "/", "b", "u", "t", "t", "o", "n", "[", "0", "]">>
sOne == <<"1">>
sOneX == <<" ", "1", "x">>
sObject == <<"[", "o", "b", "j", "e", "c", "t", " ", "O", "b", "j", "e", "c", "t", "]">>
\* literals of the source
sNode == <<"n", "o", "d", "e">>
sMain == <<"m", "a", "i", "n">>
sSidPrefix == <<"s", "i", "d", "_">>
sSep == <<"|", "|">>
sEllipsis == <<".", ".", ".">>
sSlash == <<"/">>

UpperChars == <<"A", "B", "C", "D", "E", "F", "G", "H", "I", "J", "K", "L", "M", "N", "O", "P", "Q", "R", "S", "T", "U", "V", "W", "X", "Y", "Z">>
LowerChars == <<"a", "b", "c", "d", "e", "f", "g", "h", "i", "j", "k", "l", "m", "n", "o", "p", "q", "r", "s", "t", "u", "v", "w", "x", "y", "z">>
DigitChars == <<"0", "1", "2", "3", "4", "5", "6", "7", "8", "9">>
WhiteSpace == {" ", "\t", "\n"}

(* ------------------------ JavaScript strings -------------------------- *)

Min(a, b) == IF a <= b THEN a ELSE b
Max(a, b) == IF a >= b THEN a ELSE b

\* A string in a condition: the empty string is falsy.
Truthy(s) == s # <<>>

\* a || b on strings
OrElse(a, b) == IF Truthy(a) THEN a ELSE b

UpperSet == {UpperChars[k] : k \in 1..Len(UpperChars)}
LowerOf == [c \in UpperSet |-> LowerChars[CHOOSE k \in 1..Len(UpperChars) : UpperChars[k] = c]]

LowerChar(c) == IF c \in UpperSet THEN LowerOf[c] ELSE c

\* String.prototype.toLowerCase
ToLowerCase(s) == [i \in 1..Len(s) |-> LowerChar(s[i])]

\* String.prototype.includes
Includes(s, sub) ==
  \E k \in 0..(Len(s) - Len(sub)) : SubSeq(s, k + 1, k + Len(sub)) = sub

\* String.prototype.trim
RECURSIVE TrimStart(_)
TrimStart(s) ==
  IF s # <<>> /\ Head(s) \in WhiteSpace THEN TrimStart(Tail(s)) ELSE s

RECURSIVE TrimEnd(_)
TrimEnd(s) ==
  IF s # <<>> /\ s[Len(s)] \in WhiteSpace
    THEN TrimEnd(SubSeq(s, 1, Len(s) - 1))
    ELSE s

Trim(s) == TrimEnd(TrimStart(s))

\* (variant) s.replace(/\s\s/g, ' '): the white space is collapsed pair by
\* pair
RECURSIVE CollapsePairs(_)
CollapsePairs(s) ==
  IF s = <<>> THEN <<>>
  ELSE IF Len(s) >= 2 /\ s[1] \in WhiteSpace /\ s[2] \in WhiteSpace
    THEN <<" ">> \o CollapsePairs(SubSeq(s, 3, Len(s)))
    ELSE <<Head(s)>> \o CollapsePairs(Tail(s))

\* s.replace(/\s+/g, ' ')
RECURSIVE CollapseWhiteSpace(_)
CollapseWhiteSpace(s) ==
  IF s = <<>> THEN <<>>
  ELSE IF Head(s) \in WhiteSpace
    THEN <<" ">> \o CollapseWhiteSpace(TrimStart(s))
    ELSE <<Head(s)>> \o CollapseWhiteSpace(Tail(s))

\* Number.prototype.toString of an integer
RECURSIVE Digits(_)
Digits(n) ==
  IF n < 10 THEN <<DigitChars[n + 1]>>
  ELSE Digits(n \div 10) \o <<DigitChars[(n % 10) + 1]>>

IntToString(n) == IF n < 0 THEN <<"-">> \o Digits(0 - n) ELSE Digits(n)

\* JavaScript numbers
NaN == [nan |-> TRUE, val |-> 0]
Num(v) == [nan |-> FALSE, val |-> v]

DigitSet == {DigitChars[k] : k \in 1..Len(DigitChars)}
DigitOf == [c \in DigitSet |-> (CHOOSE k \in 1..Len(DigitChars) : DigitChars[k] = c) - 1]

IsDigit(c) == c \in DigitSet
DigitValue(c) == DigitOf[c]

RECURSIVE DigitPrefixValue(_, _)
DigitPrefixValue(s, acc) ==
  IF s # <<>> /\ IsDigit(Head(s))
    THEN DigitPrefixValue(Tail(s), acc * 10 + DigitValue(Head(s)))
    ELSE acc

\* parseInt(s, 10): leading white space is skipped, an optional sign is read,
\* then the longest prefix of digits; NaN when there is no digit.  It never
\* throws.
ParseInt(s) ==
  LET t == TrimStart(s)
      signed == t # <<>> /\ Head(t) \in {"-", "+"}
      body == IF signed THEN Tail(t) ELSE t
      v == DigitPrefixValue(body, 0)
  IN IF body = <<>> \/ ~IsDigit(Head(body)) THEN NaN
     ELSE IF signed /\ Head(t) = "-" THEN Num(0 - v) ELSE Num(v)

\* Number.prototype.toString
NumToString(x) == IF x.nan THEN <<"N", "a", "N">> ELSE IntToString(x.val)

\* ToIntegerOrInfinity followed by the relative-index rule of Array.prototype.slice
RelativeIndex(x, len) ==
  IF x.nan THEN 0
  ELSE IF x.val < 0 THEN Max(len + x.val, 0)
  ELSE Min(x.val, len)

\* Array.prototype.slice(start, end)
Slice(a, start, end) ==
  LET from == RelativeIndex(start, Len(a))
      to == RelativeIndex(end, Len(a))
  IN SubSeq(a, from + 1, to)

\* Math.min(a, b), a + b and a < b on numbers: NaN is contagious and compares false
NumMin(a, b) == IF a.nan \/ b.nan THEN NaN ELSE Num(Min(a.val, b.val))
NumAdd(a, b) == IF a.nan \/ b.nan THEN NaN ELSE Num(a.val + b.val)
NumLess(a, b) == ~a.nan /\ ~b.nan /\ a.val < b.val

(* ----------------------- accessibility tree --------------------------- *)

\* The values a field of a SerializedAXNode may hold at run time.
RUndef == [t |-> "undefined"]
RStr(s) == [t |-> "string", v |-> s]
RNum(n) == [t |-> "number", v |-> n]
RBool(b) == [t |-> "boolean", v |-> b]
RNull == [t |-> "null"]
\* an object with a 'value' key
RObj(inner) == [t |-> "object", v |-> inner]

RECURSIVE getAXString(_)
getAXString(value) ==
  CASE value.t = "undefined" -> <<>>
    [] value.t = "string" -> value.v
    [] value.t = "number" -> IntToString(value.v)
    [] value.t = "boolean" -> (IF value.v THEN sTrue ELSE sFalse)
    [] value.t = "object" -> getAXString(value.v)
    [] OTHER -> <<>>

\* String(value) of a value that is neither undefined nor null
JsString(value) ==
  CASE value.t = "string" -> value.v
    [] value.t = "number" -> IntToString(value.v)
    [] value.t = "boolean" -> (IF value.v THEN sTrue ELSE sFalse)
    [] OTHER -> sObject

candidates ==
  << <<"d", "i", "s", "a", "b", "l", "e", "d">>,
     <<"e", "x", "p", "a", "n", "d", "e", "d">>,
     <<"f", "o", "c", "u", "s", "e", "d">>,
     <<"m", "o", "d", "a", "l">>,
     <<"m", "u", "l", "t", "i", "l", "i", "n", "e">>,
     <<"m", "u", "l", "t", "i", "s", "e", "l", "e", "c", "t", "a", "b", "l", "e">>,
     <<"r", "e", "a", "d", "o", "n", "l", "y">>,
     <<"r", "e", "q", "u", "i", "r", "e", "d">>,
     <<"s", "e", "l", "e", "c", "t", "e", "d">>,
     <<"c", "h", "e", "c", "k", "e", "d">>,
     <<"p", "r", "e", "s", "s", "e", "d">>,
     <<"l", "e", "v", "e", "l">>,
     <<"v", "a", "l", "u", "e", "m", "i", "n">>,
     <<"v", "a", "l", "u", "e", "m", "a", "x">>,
     <<"a", "u", "t", "o", "c", "o", "m", "p", "l", "e", "t", "e">>,
     <<"h", "a", "s", "p", "o", "p", "u", "p">>,
     <<"i", "n", "v", "a", "l", "i", "d">>,
     <<"o", "r", "i", "e", "n", "t", "a", "t", "i", "o", "n">> >>

\* A node's own content.  own: its further own properties by key;
\* properties: its 'properties' array (hasProperties tells whether it has one).
\* Its children are held by the tree.
NodeKinds == {"btn", "lnk", "val", "none"}

KindNode(k) ==
  CASE k = "btn" ->
         [role |-> RStr(sButton), name |-> RStr(sSubmit), description |-> RUndef,
          value |-> RUndef, own |-> (sDisabled :> RBool(FALSE)),
          hasProperties |-> FALSE, properties |-> <<>>]
    [] k = "lnk" ->
         [role |-> RStr(sLink), name |-> RUndef, description |-> RStr(sSubmitForm),
          value |-> RUndef, own |-> (sDisabled :> RUndef),
          hasProperties |-> TRUE,
          properties |-> << [name |-> RStr(sDisabledCap), value |-> RObj(RStr(sTrue))],
                            [name |-> RUndef, value |-> RStr(sTrue)] >>]
    [] k = "val" ->
         [role |-> RUndef, name |-> RUndef, description |-> RUndef,
          value |-> RNum(42), own |-> <<>>,
          hasProperties |-> FALSE, properties |-> <<>>]
    [] k = "up" ->
         [role |-> RStr(sUpButton), name |-> RUndef, description |-> RUndef,
          value |-> RUndef, own |-> <<>>,
          hasProperties |-> FALSE, properties |-> <<>>]
    [] OTHER ->
         [role |-> RUndef, name |-> RUndef, description |-> RUndef,
          value |-> RUndef, own |-> <<>>,
          hasProperties |-> FALSE, properties |-> <<>>]

\* A tree of n nodes numbered 1..n, 1 the root: parent[i] < i is the parent of
\* node i > 1, the children of a node are ordered by their number, kind[i]
\* names the content of node i.
Shapes(n) ==
  {p \in [1..n -> 0..(n - 1)] : p[1] = 0 /\ \A j \in 2..n : p[j] \in 1..(j - 1)}

Chain(n) ==
  [parent |-> [j \in 1..n |-> j - 1], kind |-> [j \in 1..n |-> "btn"]]

Star(n) ==
  [parent |-> [j \in 1..n |-> IF j = 1 THEN 0 ELSE 1], kind |-> [j \in 1..n |-> "btn"]]

KindsIn(n) == IF n <= MaxValTreeNodes THEN NodeKinds ELSE NodeKinds \ {"val"}

Trees ==
  UNION {{[parent |-> p, kind |-> k] : p \in Shapes(n), k \in [1..n -> KindsIn(n)]}
           : n \in 1..MaxTreeNodes}
  \cup {Chain(n) : n \in (MaxTreeNodes + 1)..MaxChain}
  \cup {Star(n) : n \in (MaxTreeNodes + 1)..MaxStar}

Size(t) == Len(t.parent)
Node(t, i) == KindNode(t.kind[i])

\* node.children || []
RECURSIVE ChildrenFrom(_, _, _)
ChildrenFrom(t, i, j) ==
  IF j > Size(t) THEN <<>>
  ELSE IF t.parent[j] = i THEN <<j>> \o ChildrenFrom(t, i, j + 1)
  ELSE ChildrenFrom(t, i, j + 1)

Children(t, i) == ChildrenFrom(t, i, i + 1)

\* i is the node a or one of its descendants
RECURSIVE InSubtree(_, _, _)
InSubtree(t, a, i) ==
  IF i = a THEN TRUE
  ELSE IF i <= 1 THEN FALSE
  ELSE InSubtree(t, a, t.parent[i])

(* --------------------------- helpers ---------------------------------- *)

Put(dict, k, v) == [x \in DOMAIN dict \cup {k} |-> IF x = k THEN v ELSE dict[x]]

RECURSIVE AddProperties(_, _)
AddProperties(attributes, props) ==
  IF props = <<>> THEN attributes
  ELSE LET prop == Head(props)
           name == IF prop.name.t = "string" THEN ToLowerCase(prop.name.v) ELSE <<>>
           value == getAXString(prop.value)
       IN IF ~Truthy(name) \/ value = <<>>
            THEN AddProperties(attributes, Tail(props))
            ELSE AddProperties(Put(attributes, name, value), Tail(props))

\* The dictionary of a node's attributes: the candidates it holds, as
\* strings, then its declared properties under their lower-cased names.
extractAttributes(node) ==
  LET held == {candidates[i] : i \in 1..Len(candidates)} \cap DOMAIN node.own
      set == {c \in held : node.own[c].t # "undefined"}
      attributes == [c \in set |-> JsString(node.own[c])]
  IN IF node.hasProperties
       THEN AddProperties(attributes, node.properties)
       ELSE attributes

\* path.posix.join('/', ...pathSegments): the arguments joined by '/', then
\* normalised: empty and '.' components dropped, '..' resolved, no '..'
\* above the root.
RECURSIVE SplitSlash(_, _)
SplitSlash(s, cur) ==
  IF s = <<>> THEN <<cur>>
  ELSE IF Head(s) = "/" THEN <<cur>> \o SplitSlash(Tail(s), <<>>)
  ELSE SplitSlash(Tail(s), Append(cur, Head(s)))

RECURSIVE NormalizeComponents(_, _)
NormalizeComponents(comps, out) ==
  IF comps = <<>> THEN out
  ELSE LET c == Head(comps)
       IN IF c = <<>> \/ c = <<".">>
            THEN NormalizeComponents(Tail(comps), out)
          ELSE IF c = <<".", ".">>
            THEN NormalizeComponents(Tail(comps),
                   IF out = <<>> THEN out ELSE SubSeq(out, 1, Len(out) - 1))
          ELSE NormalizeComponents(Tail(comps), Append(out, c))

RECURSIVE JoinSlash(_)
JoinSlash(parts) ==
  IF parts = <<>> THEN <<>>
  ELSE IF Len(parts) = 1 THEN Head(parts)
  ELSE Head(parts) \o sSlash \o JoinSlash(Tail(parts))

PosixJoinRoot(pathSegments) ==
  LET joined == JoinSlash(<<sSlash>> \o pathSegments)
      comps == NormalizeComponents(SplitSlash(joined, <<>>), <<>>)
      trailing == comps # <<>> /\ joined[Len(joined)] = "/"
  IN sSlash \o JoinSlash(comps) \o (IF trailing THEN sSlash ELSE <<>>)

\* (variant) the name is not trimmed
NormalizeLabelUntrimmed(name) == CollapseWhiteSpace(ToLowerCase(name))

\* name.toLowerCase().trim().replace(/\s+/g, ' ')
NormalizeLabel(name) == CollapseWhiteSpace(Trim(ToLowerCase(name)))

\* The first 24 characters of the base64url SHA-256 digest, idealised as a
\* collision-free encoding: two inputs get the same token only if equal.
HashToken(hashInput) == hashInput

\* (variant) the description is left out of the hash input
generateSIDWithoutDescription(node, frameId, pathSegments) ==
  sSidPrefix \o HashToken(frameId \o sSep \o PosixJoinRoot(pathSegments) \o sSep
                            \o getAXString(node.role) \o sSep
                            \o NormalizeLabel(getAXString(node.name)))

generateSID(node, frameId, pathSegments) ==
  LET role == getAXString(node.role)
      name == getAXString(node.name)
      description == getAXString(node.description)
      axPath == PosixJoinRoot(pathSegments)
      normalizedLabel == NormalizeLabel(name)
      hashInput == frameId \o sSep \o axPath \o sSep \o role \o sSep
                     \o normalizedLabel \o sSep \o description
  IN sSidPrefix \o HashToken(hashInput)

MaxLength == 50

\* null is the empty string here: a snippet is either null or not empty
extractTextSnippet(node) ==
  LET name == getAXString(node.name)
      description == getAXString(node.description)
      value == getAXString(node.value)
      text == OrElse(OrElse(name, description), value)
  IN IF ~Truthy(text) THEN <<>>
     ELSE IF Len(text) > MaxLength
       THEN SubSeq(text, 1, MaxLength) \o sEllipsis
       ELSE text

getElementBounds(node) == [x |-> 0, y |-> 0, width |-> 100, height |-> 20]

\* `${childRole}[${i}]`
Segment(childRole, i) == childRole \o <<"[">> \o IntToString(i) \o <<"]">>

(* --------------------------- parameters ------------------------------- *)

\* An optional string parameter is RUndef or RStr(s); in a condition it is
\* truthy when it is a string and not empty.
ParamTruthy(x) == x.t = "string" /\ Truthy(x.v)

frameId == sMain

\* max_nodes * 5
StopFactor == 5

\* (variant) the walk stops at max_nodes, not at five times max_nodes
StopReachedAtPage(length, max_nodes) == length >= max_nodes

\* nodes.length >= params.max_nodes * 5
StopReached(length, max_nodes) == length >= max_nodes * StopFactor

AllFields == <<"sid", "role", "label", "textSnippet", "bounds", "frameId">>

\* params.fields.includes(f)
FieldsInclude(fields, f) == \E k \in 1..Len(fields) : fields[k] = f

\* The scope test both walks make at each node, from targetSid, the
\* isWithinScope handed down, and the node's sid.
\* (variant) the target is matched as a substring of the sid
MatchesTargetSubstring(targetSid, sid) ==
  IF ParamTruthy(targetSid) THEN Includes(sid, targetSid.v) ELSE TRUE

MatchesTarget(targetSid, sid) ==
  IF ParamTruthy(targetSid) THEN sid = targetSid.v ELSE TRUE

\* (variant) every node is included, whatever the scope
IncludeNodeAlways(targetSid, isWithinScope, matchesTarget) == TRUE

IncludeNode(targetSid, isWithinScope, matchesTarget) ==
  IF ParamTruthy(targetSid) THEN isWithinScope \/ matchesTarget ELSE TRUE

\* (variant) the scope is handed to the children of the scoping node only
NextScopeOfTarget(targetSid, isWithinScope, matchesTarget) ==
  IF ParamTruthy(targetSid) THEN matchesTarget ELSE TRUE

NextScope(targetSid, isWithinScope, matchesTarget) ==
  IF ParamTruthy(targetSid) THEN isWithinScope \/ matchesTarget ELSE TRUE

(* ---------------------------- sem_snapshot ---------------------------- *)

\* The object pushed for a node: only the selected fields, and textSnippet
\* only when the snippet is not null.
\* (variant) every field is set, whatever the caller's list names
NodeDataOfAllFields(fields, sid, role, label, textSnippet, bounds) ==
  [f \in {g \in {AllFields[k] : k \in 1..Len(AllFields)} : g = "textSnippet" => Truthy(textSnippet)} |->
     CASE f = "sid" -> sid
       [] f = "role" -> role
       [] f = "label" -> label
       [] f = "textSnippet" -> textSnippet
       [] f = "bounds" -> bounds
       [] OTHER -> frameId]

NodeData(fields, sid, role, label, textSnippet, bounds) ==
  LET keys == {f \in {AllFields[k] : k \in 1..Len(AllFields)} :
                 /\ FieldsInclude(fields, f)
                 /\ (f = "textSnippet" => Truthy(textSnippet))}
  IN [f \in keys |->
        CASE f = "sid" -> sid
          [] f = "role" -> role
          [] f = "label" -> label
          [] f = "textSnippet" -> textSnippet
          [] f = "bounds" -> bounds
          [] OTHER -> frameId]

\* processNode and its loop over the children.  nodes is the array the
\* closure pushes onto; each entry records which node of the tree it was
\* made for (node) beside the object pushed (data).
RECURSIVE processNode(_, _, _, _, _, _)
RECURSIVE processChildren(_, _, _, _, _, _, _)

\* The end of processNode: nodes as it is after the push (pushed), then the
\* early stop and the loop over the children.
\* (variant) the children of a node that was not pushed are not visited
processDescendOfPushed(t, i, pathSegments, nextScope, pushed, params) ==
  IF Len(Children(t, i)) = 0 THEN pushed
  ELSE IF Len(pushed) = 0 \/ pushed[Len(pushed)].node # i THEN pushed
  ELSE IF StopReached(Len(pushed), params.max_nodes) THEN pushed
  ELSE processChildren(t, Children(t, i), 0, pathSegments, nextScope, pushed, params)

processDescend(t, i, pathSegments, nextScope, pushed, params) ==
  IF Len(Children(t, i)) = 0 THEN pushed
  ELSE IF StopReached(Len(pushed), params.max_nodes) THEN pushed
  ELSE processChildren(t, Children(t, i), 0, pathSegments, nextScope, pushed, params)

\* processNode from its constants sid, role, label, textSnippet and bounds
\* on: the scope flags and the push.
processPush(t, i, pathSegments, isWithinScope, nodes, params, sid, role, label, textSnippet, bounds) ==
  LET targetSid == params.within_sid
      matchesTarget == MatchesTarget(targetSid, sid)
      includeNode == IncludeNode(targetSid, isWithinScope, matchesTarget)
      nextScope == NextScope(targetSid, isWithinScope, matchesTarget)
  IN processDescend(t, i, pathSegments, nextScope,
       IF includeNode /\ (Truthy(role) \/ Truthy(label) \/ Truthy(textSnippet))
         THEN Append(nodes,
                [node |-> i,
                 data |-> NodeData(params.fields, sid, role, label, textSnippet, bounds)])
         ELSE nodes,
       params)

processNode(t, i, pathSegments, isWithinScope, nodes, params) ==
  processPush(t, i, pathSegments, isWithinScope, nodes, params,
              generateSID(Node(t, i), frameId, pathSegments),
              getAXString(Node(t, i).role),
              getAXString(Node(t, i).name),
              extractTextSnippet(Node(t, i)),
              getElementBounds(Node(t, i)))

processChildren(t, children, i, pathSegments, nextScope, nodes, params) ==
  IF ~(i < Len(children)) THEN nodes
  ELSE processChildren(t, children, i + 1, pathSegments, nextScope,
         processNode(t, children[i + 1],
                     Append(pathSegments,
                            Segment(OrElse(getAXString(Node(t, children[i + 1]).role), sNode),
                                    i)),
                     nextScope, nodes, params),
         params)

\* (variant) the page starts one past the cursor
StartIndexOnePast(cursor) ==
  IF ParamTruthy(cursor) THEN NumAdd(ParseInt(cursor.v), Num(1)) ELSE Num(0)

\* The cursor as an index: 0 without a cursor (or with an empty one), else
\* parseInt, which does not throw, so the catch never resets it.
StartIndex(cursor) == IF ParamTruthy(cursor) THEN ParseInt(cursor.v) ELSE Num(0)

\* The provider's answers to one capture.
CaptureTree(t) == [kind |-> "tree", tree |-> t]
CaptureNull == [kind |-> "null"]
CaptureThrows == [kind |-> "throws", message |-> "Protocol error"]

Returned(lines) == [status |-> "returned", response |-> lines, error |-> <<>>]
Threw(prefix, message) == [status |-> "threw", response |-> <<>>, error |-> <<prefix, message>>]

\* The array processNode(accessibilityTree) leaves in nodes.
Materialize(tree, params) == processNode(tree, 1, <<>>, FALSE, <<>>, params)

\* The response of sem_snapshot from nodes, startIndex and endIndex: the page
\* cut out of nodes, the next cursor and the four response lines.
\* (variant) a next_cursor is returned while endIndex <= nodes.length
snapshotResponseToTheEnd(snapshotId, nodes, startIndex, endIndex) ==
  LET nextCursor == IF ~endIndex.nan /\ ~NumLess(Num(Len(nodes)), endIndex)
                      THEN RStr(NumToString(endIndex))
                      ELSE RNull
  IN Returned(<< [kind |-> "Created", snapshot_id |-> snapshotId],
                 [kind |-> "Found", count |-> Len(nodes)],
                 [kind |-> "Returning", from |-> startIndex,
                  to |-> NumAdd(endIndex, Num(-1))],
                 [kind |-> "Result",
                  result |-> [snapshot_id |-> snapshotId,
                              nodes |-> Slice(nodes, startIndex, endIndex),
                              next_cursor |-> nextCursor]] >>)

snapshotResponse(snapshotId, nodes, startIndex, endIndex) ==
  LET pageNodes == Slice(nodes, startIndex, endIndex)
      nextCursor == IF NumLess(endIndex, Num(Len(nodes)))
                      THEN RStr(NumToString(endIndex))
                      ELSE RNull
      result == [snapshot_id |-> snapshotId, nodes |-> pageNodes, next_cursor |-> nextCursor]
  IN Returned(<< [kind |-> "Created", snapshot_id |-> snapshotId],
                 [kind |-> "Found", count |-> Len(nodes)],
                 [kind |-> "Returning", from |-> startIndex,
                  to |-> NumAdd(endIndex, Num(-1))],
                 [kind |-> "Result", result |-> result] >>)

\* (variant) the page holds one node more than max_nodes
snapshotPageOneMore(params, snapshotId, nodes, startIndex) ==
  snapshotResponse(snapshotId, nodes, startIndex,
                   NumMin(NumAdd(startIndex, Num(params.max_nodes + 1)), Num(Len(nodes))))

\* The handler from nodes and startIndex on: endIndex and the response.
snapshotPage(params, snapshotId, nodes, startIndex) ==
  snapshotResponse(snapshotId, nodes, startIndex,
                   NumMin(NumAdd(startIndex, Num(params.max_nodes)), Num(Len(nodes))))

\* The handler of sem_snapshot once it holds a tree: the walk, the cursor,
\* the page and the response lines.
snapshotOf(params, tree, snapshotId) ==
  snapshotPage(params, snapshotId, Materialize(tree, params), StartIndex(params.cursor))

\* (variant) a failed capture is answered with an empty snapshot
semSnapshotEmptyOnFailure(params, capture, snapshotId) ==
  IF capture.kind # "tree"
    THEN Returned(<< [kind |-> "Created", snapshot_id |-> snapshotId],
                     [kind |-> "Found", count |-> 0],
                     [kind |-> "Result",
                      result |-> [snapshot_id |-> snapshotId, nodes |-> <<>>,
                                  next_cursor |-> RNull]] >>)
    ELSE snapshotOf(params, capture.tree, snapshotId)

\* The handler of sem_snapshot from the answer of its one capture on:
\* what it appends to the response, or the error it throws.
semSnapshot(params, capture, snapshotId) ==
  IF capture.kind = "throws"
    THEN Threw("Failed to create semantic snapshot: ", capture.message)
  ELSE IF capture.kind = "null"
    THEN Threw("Failed to create semantic snapshot: ", "Failed to capture accessibility tree")
  ELSE snapshotOf(params, capture.tree, snapshotId)

(* ------------------------------ sem_query ----------------------------- *)

\* The reasons pushed by the scoring, as the source writes them; "~" stands
\* for the character U+2248 of the source.
sRoleEq == <<"r", "o", "l", "e", "=">>
sLabelApprox == <<"l", "a", "b", "e", "l", "~">>
sDescriptionApprox == <<"d", "e", "s", "c", "r", "i", "p", "t", "i", "o", "n", "~">>
sTextApprox == <<"t", "e", "x", "t", "~">>

RoleScore == 50
LabelScore == 40
DescriptionScore == 30
TextScore == 35
AttributeScore == 20

\* The scoring state: score and matchReasons.
NoScore == [score |-> 0, matchReasons |-> <<>>]
Credit(st, points, reason) ==
  [score |-> st.score + points, matchReasons |-> Append(st.matchReasons, reason)]

\* (variant) the role is compared without lower-casing
RoleMatchingCaseSensitive(st, params, role) ==
  IF ParamTruthy(params.role) /\ Includes(role, params.role.v)
    THEN Credit(st, RoleScore, sRoleEq \o role)
    ELSE st

RoleMatching(st, params, role) ==
  IF ParamTruthy(params.role)
       /\ Includes(ToLowerCase(role), ToLowerCase(params.role.v))
    THEN Credit(st, RoleScore, sRoleEq \o role)
    ELSE st

\* (variant) a label match sets the score instead of adding to it
LabelMatchingAssign(st, params, label, description) ==
  IF ~ParamTruthy(params.label) THEN st
  ELSE IF Includes(ToLowerCase(label), ToLowerCase(params.label.v))
    THEN [score |-> LabelScore, matchReasons |-> Append(st.matchReasons, sLabelApprox \o label)]
  ELSE IF Includes(ToLowerCase(description), ToLowerCase(params.label.v))
    THEN [score |-> DescriptionScore, matchReasons |-> Append(st.matchReasons, sDescriptionApprox \o description)]
  ELSE st

LabelMatching(st, params, label, description) ==
  IF ~ParamTruthy(params.label) THEN st
  ELSE LET searchLabel == ToLowerCase(params.label.v)
       IN IF Includes(ToLowerCase(label), searchLabel)
            THEN Credit(st, LabelScore, sLabelApprox \o label)
          ELSE IF Includes(ToLowerCase(description), searchLabel)
            THEN Credit(st, DescriptionScore, sDescriptionApprox \o description)
          ELSE st

TextMatching(st, params, label, description, value) ==
  IF ~ParamTruthy(params.text) THEN st
  ELSE LET searchText == ToLowerCase(params.text.v)
           allText == ToLowerCase(label \o <<" ">> \o description \o <<" ">> \o value)
       IN IF Includes(allText, searchText)
            THEN Credit(st, TextScore, sTextApprox \o params.text.v)
            ELSE st

\* params.attributes is RUndef or an object, given by its entries
\* <<attr, expectedValue>> in the order of Object.entries.
\* attributes[lowerAttr]: undefined (here the empty string) when absent
ActualValue(attributes, lowerAttr) ==
  IF lowerAttr \in DOMAIN attributes THEN attributes[lowerAttr] ELSE <<>>

\* One turn of the loop over Object.entries(params.attributes).
AttributeMatching(st, attr, expectedValue, actualValue) ==
  IF Truthy(actualValue) /\ ToLowerCase(actualValue) = ToLowerCase(expectedValue)
    THEN Credit(st, AttributeScore, attr \o <<"=">> \o actualValue)
    ELSE st

RECURSIVE AttributeEntries(_, _, _)
AttributeEntries(st, entries, attributes) ==
  IF entries = <<>> THEN st
  ELSE AttributeEntries(
         AttributeMatching(st, Head(entries)[1], Head(entries)[2],
                           ActualValue(attributes, ToLowerCase(Head(entries)[1]))),
         Tail(entries), attributes)

AttributesMatching(st, params, attributes) ==
  IF params.attributes.t = "undefined" THEN st
  ELSE AttributeEntries(st, params.attributes.entries, attributes)

\* score and matchReasons of a node that is included
Scoring(node, params) ==
  LET role == getAXString(node.role)
      label == getAXString(node.name)
      description == getAXString(node.description)
      value == getAXString(node.value)
      attributes == extractAttributes(node)
  IN AttributesMatching(
       TextMatching(
         LabelMatching(
           RoleMatching(NoScore, params, role),
           params, label, description),
         params, label, description, value),
       params, attributes)

\* matchReasons.join(',') || ''
RECURSIVE JoinComma(_)
JoinComma(parts) ==
  IF parts = <<>> THEN <<>>
  ELSE IF Len(parts) = 1 THEN Head(parts)
  ELSE Head(parts) \o <<",">> \o JoinComma(Tail(parts))

\* (variant) the confidence is not clamped to 1
ConfidenceUnclamped(score) == score

\* Math.round(Math.min(score / 100, 1) * 100) / 100, in hundredths
Confidence(score) == Min(score, 100)

\* searchNode and its loop over the children.  found holds the two arrays
\* the closure pushes onto; each match records which node of the tree it was
\* made for (node) beside the fields of the object pushed.
\* (variant) a positive score alone makes a candidate
IsCandidateByScore(score, role, label, description) == score > 0

\* score > 0 && (role || label || description)
IsCandidate(score, role, label, description) ==
  score > 0 /\ (Truthy(role) \/ Truthy(label) \/ Truthy(description))

RECURSIVE searchNode(_, _, _, _, _, _)
RECURSIVE searchChildren(_, _, _, _, _, _, _)

\* The end of searchNode: the two arrays as they are after the push
\* (pushed), then the loop over the children.
searchDescend(t, i, pathSegments, nextScope, pushed, params) ==
  IF Len(Children(t, i)) = 0 THEN pushed
  ELSE searchChildren(t, Children(t, i), 0, pathSegments, nextScope, pushed, params)

\* searchNode from its constants sid, role, label, description and from the
\* score and matchReasons (st) on: the scope flags and the push.
searchPush(t, i, pathSegments, isWithinScope, found, params, sid, role, label, description, st) ==
  LET targetSid == params.within_sid
      matchesTarget == MatchesTarget(targetSid, sid)
      includeNode == IncludeNode(targetSid, isWithinScope, matchesTarget)
      nextScope == NextScope(targetSid, isWithinScope, matchesTarget)
  IN searchDescend(t, i, pathSegments, nextScope,
       IF includeNode /\ IsCandidate(st.score, role, label, description)
         THEN [matches |-> Append(found.matches,
                             [node |-> i, sid |-> sid, role |-> role, label |-> label,
                              confidence |-> Confidence(st.score), score |-> st.score]),
               explanations |-> IF params.explain
                                  THEN Append(found.explanations, JoinComma(st.matchReasons))
                                  ELSE found.explanations]
         ELSE found,
       params)

\* (variant) sem_query derives the SID without the path of the node
searchNodeWithoutPath(t, i, pathSegments, isWithinScope, found, params) ==
  searchPush(t, i, pathSegments, isWithinScope, found, params,
             generateSID(Node(t, i), frameId, <<>>),
             getAXString(Node(t, i).role),
             getAXString(Node(t, i).name),
             getAXString(Node(t, i).description),
             Scoring(Node(t, i), params))

searchNode(t, i, pathSegments, isWithinScope, found, params) ==
  searchPush(t, i, pathSegments, isWithinScope, found, params,
             generateSID(Node(t, i), frameId, pathSegments),
             getAXString(Node(t, i).role),
             getAXString(Node(t, i).name),
             getAXString(Node(t, i).description),
             Scoring(Node(t, i), params))

searchChildren(t, children, i, pathSegments, nextScope, found, params) ==
  IF ~(i < Len(children)) THEN found
  ELSE searchChildren(t, children, i + 1, pathSegments, nextScope,
         searchNode(t, children[i + 1],
                    Append(pathSegments,
                           Segment(OrElse(getAXString(Node(t, children[i + 1]).role), sNode),
                                   i)),
                    nextScope, found, params),
         params)

\* a.localeCompare(b), as the sign of a comparison character by character in
\* the order of CollationOrder, a shorter prefix first.
CollationOrder ==
  <<" ", "_", "-", ",", ".", "[", "]", "/", "=", "|", "~">>
    \o DigitChars
    \o [k \in 1..(2 * Len(LowerChars)) |->
          IF k % 2 = 1 THEN LowerChars[(k + 1) \div 2] ELSE UpperChars[k \div 2]]

CollationSet == {CollationOrder[k] : k \in 1..Len(CollationOrder)}
RankOf == [c \in CollationSet |-> CHOOSE k \in 1..Len(CollationOrder) : CollationOrder[k] = c]

CharRank(c) == IF c \in CollationSet THEN RankOf[c] ELSE 0

RECURSIVE localeCompare(_, _)
localeCompare(a, b) ==
  IF a = <<>> /\ b = <<>> THEN 0
  ELSE IF a = <<>> THEN -1
  ELSE IF b = <<>> THEN 1
  ELSE IF CharRank(Head(a)) < CharRank(Head(b)) THEN -1
  ELSE IF CharRank(Head(a)) > CharRank(Head(b)) THEN 1
  ELSE localeCompare(Tail(a), Tail(b))

\* (variant) semantic_score sorts by ascending score
ComparatorAscendingScore(rank_by, a, b) ==
  CASE rank_by = "semantic_score" -> a.score - b.score
    [] rank_by = "proximity" -> localeCompare(a.sid, b.sid)
    [] rank_by = "visibility" -> b.confidence - a.confidence
    [] OTHER -> 0

\* The comparator the switch on rank_by hands to sort.
Comparator(rank_by, a, b) ==
  CASE rank_by = "semantic_score" -> b.score - a.score
    [] rank_by = "proximity" -> localeCompare(a.sid, b.sid)
    [] rank_by = "visibility" -> b.confidence - a.confidence
    [] OTHER -> 0

\* Array.prototype.sort with a comparator: stable.
RECURSIVE InsertSorted(_, _, _)
InsertSorted(rank_by, sorted, x) ==
  IF sorted = <<>> THEN <<x>>
  ELSE IF Comparator(rank_by, sorted[Len(sorted)], x) <= 0 THEN Append(sorted, x)
  ELSE Append(InsertSorted(rank_by, SubSeq(sorted, 1, Len(sorted) - 1), x),
              sorted[Len(sorted)])

RECURSIVE SortFrom(_, _, _)
SortFrom(rank_by, sorted, rest) ==
  IF rest = <<>> THEN sorted
  ELSE SortFrom(rank_by, InsertSorted(rank_by, sorted, Head(rest)), Tail(rest))

Sort(rank_by, matches) == SortFrom(rank_by, <<>>, matches)

\* What the walk collects: the candidates in traversal order and their
\* explanations.
Found(t, params) ==
  searchNode(t, 1, <<>>, FALSE, [matches |-> <<>>, explanations |-> <<>>], params)

\* An explanations array of a result: undefined unless explain is set.
Explanations(params, list) ==
  IF params.explain THEN [t |-> "array", v |-> list] ELSE RUndef

\* explanations[0]: undefined when the array is empty
First(list) == IF list = <<>> THEN RUndef ELSE RStr(list[1])
Strings(list) == [k \in 1..Len(list) |-> RStr(list[k])]

\* (variant) one match more than max is kept
LimitOneMore(matches, max) == Slice(matches, Num(0), Num(max + 1))

\* matches.slice(0, params.max)
Limit(matches, max) == Slice(matches, Num(0), Num(max))

\* The response of sem_query from matches (sorted), explanations and
\* limitedMatches: the two response lines of the single or the multiple
\* branch.
queryResponse(params, matches, explanations, limitedMatches) ==
  IF ~params.multiple /\ Len(limitedMatches) > 0
    THEN Returned(<< [kind |-> "FoundBest", sid |-> limitedMatches[1].sid,
                      confidence |-> limitedMatches[1].confidence],
                     [kind |-> "Result",
                      result |-> [sids |-> <<limitedMatches[1].sid>>,
                                  elements |-> <<limitedMatches[1]>>,
                                  explanations |->
                                    Explanations(params, <<First(explanations)>>)]] >>)
    ELSE Returned(<< [kind |-> "FoundMatches", count |-> Len(matches),
                      returning |-> Len(limitedMatches)],
                     [kind |-> "Result",
                      result |-> [sids |-> [k \in 1..Len(limitedMatches) |->
                                              limitedMatches[k].sid],
                                  elements |-> limitedMatches,
                                  explanations |->
                                    Explanations(params,
                                      Strings(Slice(explanations, Num(0),
                                                    Num(Len(limitedMatches)))))]] >>)

\* The handler from the sorted matches on: the limit and the response.
queryLimit(params, matches, explanations) ==
  queryResponse(params, matches, explanations, Limit(matches, params.max))

\* The handler from the two arrays of the walk on: the sort of matches
\* (explanations is left as it is).
querySort(params, found) ==
  queryLimit(params, Sort(params.rank_by, found.matches), found.explanations)

\* The handler of sem_query once it holds a tree: the walk, the sort, the
\* limit and the response lines.
queryOf(params, tree) == querySort(params, Found(tree, params))

\* The handler of sem_query from the answer of its one capture on.
semQuery(params, capture) ==
  IF capture.kind = "throws"
    THEN Threw("Failed to query semantic elements: ", capture.message)
  ELSE IF capture.kind = "null"
    THEN Threw("Failed to query semantic elements: ",
               "Failed to capture accessibility tree for querying")
  ELSE queryOf(params, capture.tree)

(* ------------------------- the state machine -------------------------- *)

VARIABLES
  page,      \* the tree the provider captures from the page
  op,        \* the tool of the last call: "none", "sem_snapshot", "sem_query"
  params,    \* request.params of the last call
  outcome,   \* what the last call did: its response lines or its error
  captures,  \* the capture attempts the last call made
  chain,     \* the client following next_cursor: the pages concatenated so far
  calls,     \* the calls in flight at once, each with the locals of its handler
  calc       \* a function of the source applied on its own: arguments and value

vars == <<page, op, params, outcome, captures, chain, calls, calc>>

\* The segments of the path the walk hands down to node i, and its SID.
RECURSIVE PathSegments(_, _)
PathSegments(t, i) ==
  IF i = 1 THEN <<>>
  ELSE LET siblings == Children(t, t.parent[i])
           k == CHOOSE k \in 1..Len(siblings) : siblings[k] = i
       IN Append(PathSegments(t, t.parent[i]),
                 Segment(OrElse(getAXString(Node(t, i).role), sNode), k - 1))

SidOf(t, i) == generateSID(Node(t, i), frameId, PathSegments(t, i))

\* a within_sid that is the SID of no node
sUnknownSid == sSidPrefix \o sMain

\* ---- the inputs of the calls
WithinSids(t) ==
  {RUndef, RStr(sEmpty), RStr(sUnknownSid)} \cup {RStr(SidOf(t, i)) : i \in 1..Size(t)}

Cursors == {RUndef, RStr(sEmpty), RStr(sAbc), RStr(sOne), RStr(sOneX)}

FieldLists == {AllFields, <<"role", "textSnippet">>}

SnapshotIds == {"snap_a1b2c3", "snap_x7y8z9"}

SnapshotParams(within) ==
  [within_sid : within, fields : FieldLists,
   max_nodes : 1..MaxMaxNodes, cursor : Cursors]

NoPredicates ==
  [role |-> RUndef, label |-> RUndef, text |-> RUndef, attributes |-> RUndef]

Attrs(entries) == [t |-> "object", entries |-> entries]

Predicates ==
  { NoPredicates,
    [NoPredicates EXCEPT !.role = RStr(sButton)],
    [NoPredicates EXCEPT !.role = RStr(sButton), !.label = RStr(sSubmit)],
    [NoPredicates EXCEPT !.label = RStr(sSubmitLower)],
    [NoPredicates EXCEPT !.role = RStr(sButtUpper), !.label = RStr(sSub),
                         !.text = RStr(sSub)],
    [NoPredicates EXCEPT !.role = RStr(sNoRole)],
    [NoPredicates EXCEPT !.text = RStr(sFortyTwo)],
    [NoPredicates EXCEPT !.role = RStr(sEmpty), !.text = RStr(sForm),
                         !.attributes = Attrs(<< <<sDisabledCap, sTrueUpper>> >>)] }

RankBys == {"semantic_score", "proximity", "visibility"}

\* rank_by, multiple, max and explain: every combination with explain set,
\* and the default ranking without it.
Shapings ==
  {[rank_by |-> r, multiple |-> m, max |-> x, explain |-> TRUE] :
     r \in RankBys, m \in BOOLEAN, x \in 1..MaxMax}
  \cup {[rank_by |-> "semantic_score", multiple |-> m, max |-> MaxMax, explain |-> FALSE] :
          m \in BOOLEAN}

QueryParams(within) ==
  {[role |-> q.role, label |-> q.label, text |-> q.text, attributes |-> q.attributes,
    within_sid |-> w, rank_by |-> s.rank_by, multiple |-> s.multiple, max |-> s.max,
    explain |-> s.explain] :
     q \in Predicates, w \in within, s \in Shapings}

\* The page as the capture finds it: the provider answers with the tree, or
\* with null (no tree available), or it throws.
Pages == {CaptureTree(t) : t \in Trees} \cup {CaptureNull, CaptureThrows}

\* The tree parameters may refer to: none when the capture fails.
WithinSidsOf(pg) ==
  IF pg.kind = "tree" THEN WithinSids(pg.tree)
  ELSE {RUndef, RStr(sEmpty), RStr(sUnknownSid)}

NoOutcome == [status |-> "none", response |-> <<>>, error |-> <<>>]
NoChain == [on |-> FALSE, acc |-> <<>>, calls |-> 0]

\* One call of sem_snapshot: the handler awaits one capture and goes on from
\* its answer.
snapshotCall(p, answer, snapshotId) ==
  [outcome |-> semSnapshot(p, answer, snapshotId), captures |-> 1]

\* One call of sem_query.
queryCall(p, answer) ==
  [outcome |-> semQuery(p, answer), captures |-> 1]

\* The result object of a call that returned.
Result(o) == o.response[Len(o.response)].result

\* The handlers that can run at once, and a handler that is not running.
Slots == 1..MaxCalls

IdleCall ==
  [pc |-> "idle", tool |-> "none", params |-> <<>>, accessibilityTree |-> [kind |-> "none"],
   captures |-> 0, outcome |-> NoOutcome]

NoCalls == [c \in Slots |-> IdleCall]

\* No function has been applied on its own.
NoCalc == [fn |-> "none"]

Init ==
  /\ page \in Pages
  /\ op = "none"
  /\ params = <<>>
  /\ outcome = NoOutcome
  /\ captures = 0
  /\ chain = NoChain
  /\ calls = NoCalls
  /\ calc = NoCalc

\* A client calls sem_snapshot; a call with no cursor starts a chain.
SemSnapshot ==
  /\ op = "none"
  /\ \E p \in SnapshotParams(WithinSidsOf(page)), id \in SnapshotIds :
       \E c \in {snapshotCall(p, page, id)} :
          /\ op' = "sem_snapshot"
          /\ params' = p
          /\ outcome' = c.outcome
          /\ captures' = c.captures
          /\ chain' = IF p.cursor = RUndef /\ c.outcome.status = "returned"
                        THEN [on |-> TRUE, acc |-> Result(c.outcome).nodes, calls |-> 1]
                        ELSE [NoChain EXCEPT !.calls = 1]
          /\ UNCHANGED <<page, calls, calc>>

\* The client calls again with the next_cursor it was given and the other
\* parameters unchanged.
FollowCursor ==
  /\ op = "sem_snapshot"
  /\ outcome.status = "returned"
  /\ Result(outcome).next_cursor # RNull
  /\ chain.calls < MaxFollow
  /\ \E id \in SnapshotIds,
        p \in {[params EXCEPT !.cursor = Result(outcome).next_cursor]} :
       \E c \in {snapshotCall(p, page, id)} :
          /\ params' = p
          /\ outcome' = c.outcome
          /\ captures' = c.captures
          /\ chain' = IF chain.on /\ c.outcome.status = "returned"
                        THEN [on |-> TRUE, acc |-> chain.acc \o Result(c.outcome).nodes,
                              calls |-> chain.calls + 1]
                        ELSE [NoChain EXCEPT !.calls = chain.calls + 1]
          /\ UNCHANGED <<page, op, calls, calc>>

\* A client calls sem_query.
SemQuery ==
  /\ op = "none"
  /\ \E p \in QueryParams(WithinSidsOf(page)) :
       \E c \in {queryCall(p, page)} :
          /\ op' = "sem_query"
          /\ params' = p
          /\ outcome' = c.outcome
          /\ captures' = c.captures
          /\ chain' = NoChain
          /\ UNCHANGED <<page, calls, calc>>

\* The call is over: the client drops its record of it.  The engine keeps
\* nothing of a call, so the next call starts from the page alone.
Forget ==
  /\ op # "none"
  /\ op' = "none"
  /\ params' = <<>>
  /\ outcome' = NoOutcome
  /\ captures' = 0
  /\ chain' = NoChain
  /\ UNCHANGED <<page, calls, calc>>

Next == SemSnapshot \/ FollowCursor \/ SemQuery \/ Forget

Spec == Init /\ [][Next]_vars

\* The last call returned a next_cursor.
Pending ==
  /\ op = "sem_snapshot"
  /\ outcome.status = "returned"
  /\ Result(outcome).next_cursor # RNull

\* The client drops its record of a call that gave it no next_cursor.
ForgetAtEnd == ~Pending /\ Forget

\* The client that follows every next_cursor it is given: each sem_snapshot
\* call that returns a next_cursor is followed by the call with that cursor.
NextFollow == SemSnapshot \/ FollowCursor \/ ForgetAtEnd

\* A step of FollowCursor, by what tells it from every other step of
\* NextFollow: it is taken from a call that returned a next_cursor, and the
\* parameters become those of the call with that cursor.  It is enabled
\* exactly when FollowCursor is.
Follows ==
  /\ Pending
  /\ chain.calls < MaxFollow
  /\ params' = [params EXCEPT !.cursor = Result(outcome).next_cursor]

\* The client does not stop while it holds a next_cursor.
SpecFollow == Init /\ [][NextFollow]_vars /\ WF_params(Follows)

(* ------------------------- calls in flight at once -------------------- *)

\* Handlers are async functions: a call runs to its await of the capture,
\* is suspended, and runs from the answer to its end without suspending
\* again.  Other calls start, capture and finish in between, and the page
\* changes.  A call holds its request, the tree its capture was answered
\* with and what it appended or threw, all locals of its handler.

TwoButtons == [parent |-> <<0, 1>>, kind |-> <<"btn", "btn">>]
LinkOverButton == [parent |-> <<0, 1>>, kind |-> <<"lnk", "btn">>]

\* The page as it is at one moment or another.
PagesInFlight ==
  {CaptureTree([parent |-> <<0>>, kind |-> <<"btn">>]), CaptureTree(TwoButtons),
   CaptureTree(LinkOverButton), CaptureNull}

\* The requests the clients send.
RequestsInFlight ==
  {[tool |-> "sem_snapshot",
    params |-> [within_sid |-> RUndef, fields |-> AllFields, max_nodes |-> 1, cursor |-> c]] :
     c \in {RUndef, RStr(sOne)}}
  \cup
  {[tool |-> "sem_query",
    params |-> [role |-> q.role, label |-> q.label, text |-> q.text,
                attributes |-> q.attributes, within_sid |-> RUndef,
                rank_by |-> "semantic_score", multiple |-> TRUE, max |-> MaxMax,
                explain |-> TRUE]] :
     q \in {[NoPredicates EXCEPT !.label = RStr(sSubmitLower)],
            [NoPredicates EXCEPT !.role = RStr(sButton)]}}

\* The handler of the tool from the answer of its capture on.
handler(tool, p, answer, snapshotId) ==
  IF tool = "sem_snapshot" THEN semSnapshot(p, answer, snapshotId) ELSE semQuery(p, answer)

\* (variant) the handler looks at the page again when it resumes
resumeOnPage(call, snapshotId) == handler(call.tool, call.params, page, snapshotId)

\* (variant) a result is kept and handed to a later call with the same
\* request
resumeFromCache(call, snapshotId) ==
  IF \E d \in Slots : /\ calls[d].pc = "done"
                      /\ calls[d].tool = call.tool
                      /\ calls[d].params = call.params
    THEN calls[CHOOSE d \in Slots : /\ calls[d].pc = "done"
                                   /\ calls[d].tool = call.tool
                                   /\ calls[d].params = call.params].outcome
    ELSE handler(call.tool, call.params, call.accessibilityTree, snapshotId)

\* The finished sem_snapshot calls that returned a next_cursor.
WithNextCursor ==
  {d \in Slots : /\ calls[d].pc = "done"
                 /\ calls[d].tool = "sem_snapshot"
                 /\ calls[d].outcome.status = "returned"
                 /\ Result(calls[d].outcome).next_cursor # RNull}

\* (variant) the position of the last page is kept between calls: a
\* sem_snapshot call goes on from the next_cursor of a finished one
resumeFromLastCursor(call, snapshotId) ==
  IF call.tool = "sem_snapshot" /\ WithNextCursor # {}
    THEN handler(call.tool, [call.params EXCEPT !.cursor = Result(calls[CHOOSE d \in WithNextCursor : TRUE].outcome).next_cursor], call.accessibilityTree, snapshotId)
    ELSE handler(call.tool, call.params, call.accessibilityTree, snapshotId)

\* (variant) a cursor is refused when the tree is not the one of the call
\* that gave a next_cursor
resumeRefusingStale(call, snapshotId) ==
  IF /\ call.tool = "sem_snapshot"
     /\ ParamTruthy(call.params.cursor)
     /\ \E d \in WithNextCursor : calls[d].accessibilityTree # call.accessibilityTree
    THEN Threw("Failed to create semantic snapshot: ", "stale cursor")
    ELSE handler(call.tool, call.params, call.accessibilityTree, snapshotId)

\* What a suspended call does when it resumes: it goes on from its own
\* accessibilityTree.
resume(call, snapshotId) ==
  handler(call.tool, call.params, call.accessibilityTree, snapshotId)

InitInFlight ==
  /\ page \in PagesInFlight
  /\ op = "none"
  /\ params = <<>>
  /\ outcome = NoOutcome
  /\ captures = 0
  /\ chain = NoChain
  /\ calls = NoCalls
  /\ calc = NoCalc

\* A client calls a tool: the handler runs up to its await.
Begin(c) ==
  /\ calls[c].pc = "idle"
  /\ \E r \in RequestsInFlight :
       calls' = [calls EXCEPT ![c] = [IdleCall EXCEPT !.pc = "awaiting", !.tool = r.tool,
                                                      !.params = r.params]]
  /\ UNCHANGED <<page, op, params, outcome, captures, chain, calc>>

\* The provider answers the capture of call c with the page as it is now.
Capture(c) ==
  /\ calls[c].pc = "awaiting"
  /\ calls' = [calls EXCEPT ![c].pc = "captured",
                            ![c].accessibilityTree = page,
                            ![c].captures = calls[c].captures + 1]
  /\ UNCHANGED <<page, op, params, outcome, captures, chain, calc>>

\* Call c resumes from the answer and runs to its end.
Resume(c) ==
  /\ calls[c].pc = "captured"
  /\ \E id \in SnapshotIds :
       calls' = [calls EXCEPT ![c].pc = "done", ![c].outcome = resume(calls[c], id)]
  /\ UNCHANGED <<page, op, params, outcome, captures, chain, calc>>

\* The client of call c has its answer: the handler is free for another call.
Return(c) ==
  /\ calls[c].pc = "done"
  /\ calls' = [calls EXCEPT ![c] = IdleCall]
  /\ UNCHANGED <<page, op, params, outcome, captures, chain, calc>>

\* The page changes.
Mutate ==
  /\ page' \in PagesInFlight \ {page}
  /\ UNCHANGED <<op, params, outcome, captures, chain, calls, calc>>

NextInFlight ==
  \/ \E c \in Slots : Begin(c)
  \/ \E c \in Slots : Capture(c)
  \/ \E c \in Slots : Resume(c)
  \/ \E c \in Slots : Return(c)
  \/ Mutate

SpecInFlight == InitInFlight /\ [][NextInFlight]_vars

(* ---------------------- the derivation of a SID ----------------------- *)

\* generateSID applied on its own, to nodes and paths of any page, once and
\* then again with one of its five inputs changed; and the normalisation of
\* the name applied to a name and then to its own result.

MaxNameLen == 5

FrameIds == {sMain, sFrame}
PathInputs == {<<>>, <<sButtonSegment>>, <<sButtonSegment, sLinkSegment>>, <<sUpButtonSegment>>}
RoleInputs == {sEmpty, sButton, sLink}
DescriptionInputs == {sEmpty, sSubmitForm}

\* Names over a letter in both cases, another letter, a blank and a tab.
NameChars == {"O", "o", "k", " ", "\t"}
RECURSIVE NamesOfLen(_)
NamesOfLen(n) ==
  IF n = 0 THEN {<<>>}
  ELSE {Append(w, c) : w \in NamesOfLen(n - 1), c \in NameChars}
AllNames == UNION {NamesOfLen(n) : n \in 0..MaxNameLen}

NameInputs ==
  {<<>>, <<"O", "k">>, <<"o", "k">>, <<"O", "K">>, <<" ", "o", "k">>, <<"o", "k", " ">>,
   <<"o", " ", "k">>, <<"o", " ", " ", "k">>, <<"o", "\t", "K">>, <<"o", "k", "k">>}

\* A node with that role, name and description.
NodeOf(role, name, description) ==
  [role |-> RStr(role), name |-> RStr(name), description |-> RStr(description)]

\* One application of generateSID.
Derivation(f, path, role, label, description) ==
  [frameId |-> f, path |-> path, role |-> role, label |-> label,
   description |-> description,
   sid |-> generateSID(NodeOf(role, label, description), f, path)]

DerivationInputs == {"frameId", "path", "role", "label", "description"}
InputValues(input) ==
  CASE input = "frameId" -> FrameIds
    [] input = "path" -> PathInputs
    [] input = "role" -> RoleInputs
    [] input = "label" -> NameInputs
    [] input = "description" -> DescriptionInputs

InitDerive ==
  /\ page = CaptureNull
  /\ op = "none"
  /\ params = <<>>
  /\ outcome = NoOutcome
  /\ captures = 0
  /\ chain = NoChain
  /\ calls = NoCalls
  /\ calc = NoCalc

\* generateSID is applied.
Derive ==
  /\ calc.fn = "none"
  /\ \E f \in FrameIds, path \in PathInputs, role \in RoleInputs, label \in NameInputs,
        description \in DescriptionInputs :
       calc' = [fn |-> "generateSID", first |-> Derivation(f, path, role, label, description)]
  /\ UNCHANGED <<page, op, params, outcome, captures, chain, calls>>

\* generateSID is applied again, with the same inputs or with one of them
\* changed.
DeriveAgain ==
  /\ calc.fn = "generateSID"
  /\ \E input \in DerivationInputs : \E v \in InputValues(input) :
       LET a == calc.first
           b == [a EXCEPT ![input] = v]
       IN calc' = [fn |-> "generateSID twice", first |-> a, changed |-> input,
                   second |-> Derivation(b.frameId, b.path, b.role, b.label, b.description)]
  /\ UNCHANGED <<page, op, params, outcome, captures, chain, calls>>

\* The name of a node is normalised.
Normalize ==
  /\ calc.fn = "none"
  /\ \E name \in AllNames :
       calc' = [fn |-> "normalize", name |-> name, normalizedLabel |-> NormalizeLabel(name)]
  /\ UNCHANGED <<page, op, params, outcome, captures, chain, calls>>

\* The normalised name is normalised again.
NormalizeAgain ==
  /\ calc.fn = "normalize"
  /\ calc' = [fn |-> "normalize twice", name |-> calc.name, once |-> calc.normalizedLabel,
              normalizedLabel |-> NormalizeLabel(calc.normalizedLabel)]
  /\ UNCHANGED <<page, op, params, outcome, captures, chain, calls>>

NextDerive == Derive \/ DeriveAgain \/ Normalize \/ NormalizeAgain

SpecDerive == InitDerive /\ [][NextDerive]_vars

(* ----------------------- the scoring of a node ------------------------ *)

\* The scoring of searchNode applied on its own: to a node under a set of
\* predicates, and then to the same node under that set with one further
\* predicate.

RoleValues == {sButton, sButtUpper, sLink, sNoRole}
LabelValues == {sSubmit, sSub, sForm}
TextValues == {sSub, sFortyTwo, sForm, sBlank}
AttributeValues == {<<sDisabledCap, sTrueUpper>>, <<sDisabled, sFalse>>, <<sDisabled, sTrue>>}

\* The entries of an attributes object have different keys.
RECURSIVE EntriesOfLen(_)
EntriesOfLen(n) ==
  IF n = 0 THEN {<<>>}
  ELSE {Append(es, e) : es \in EntriesOfLen(n - 1), e \in AttributeValues}
DistinctKeys(es) == \A i, j \in 1..Len(es) : es[i][1] = es[j][1] => i = j
AttributeObjects == {Attrs(es) : es \in {x \in EntriesOfLen(0) \cup EntriesOfLen(1) \cup EntriesOfLen(2) : DistinctKeys(x)}}

PredicateSets ==
  [role : {RUndef} \cup {RStr(v) : v \in RoleValues},
   label : {RUndef} \cup {RStr(v) : v \in LabelValues},
   text : {RUndef} \cup {RStr(v) : v \in TextValues},
   attributes : {RUndef} \cup AttributeObjects]

\* The attributes that can be added to those of p: their key is not one of p.
NewAttributes(p) ==
  {x \in AttributeValues :
     p.attributes # RUndef => \A i \in 1..Len(p.attributes.entries) : p.attributes.entries[i][1] # x[1]}

\* The sets of predicates that have one predicate more than p: the role,
\* the label or the text where p has none, or one more attribute.
WithOneMore(p) ==
  {[p EXCEPT !.role = RStr(v)] : v \in (IF p.role = RUndef THEN RoleValues ELSE {})}
  \cup {[p EXCEPT !.label = RStr(v)] : v \in (IF p.label = RUndef THEN LabelValues ELSE {})}
  \cup {[p EXCEPT !.text = RStr(v)] : v \in (IF p.text = RUndef THEN TextValues ELSE {})}
  \cup {[p EXCEPT !.attributes = Attrs((IF p.attributes = RUndef THEN <<>> ELSE p.attributes.entries) \o <<e>>)] : e \in NewAttributes(p)}

InitScore ==
  /\ page = CaptureNull
  /\ op = "none"
  /\ params = <<>>
  /\ outcome = NoOutcome
  /\ captures = 0
  /\ chain = NoChain
  /\ calls = NoCalls
  /\ calc = NoCalc

\* A node is scored under a set of predicates.
Score ==
  /\ calc.fn = "none"
  /\ \E k \in NodeKinds, p \in PredicateSets :
       calc' = [fn |-> "score", kind |-> k, params |-> p, score |-> Scoring(KindNode(k), p).score]
  /\ UNCHANGED <<page, op, params, outcome, captures, chain, calls>>

\* The same node is scored under the set with one predicate more.
ScoreWithOneMore ==
  /\ calc.fn = "score"
  /\ \E q \in WithOneMore(calc.params) :
       calc' = [fn |-> "score more", kind |-> calc.kind, before |-> calc.params,
                scoreBefore |-> calc.score, params |-> q,
                score |-> Scoring(KindNode(calc.kind), q).score]
  /\ UNCHANGED <<page, op, params, outcome, captures, chain, calls>>

NextScore == Score \/ ScoreWithOneMore

SpecScore == InitScore /\ [][NextScore]_vars

(* ------------------------ the snippet of a node ----------------------- *)

\* extractTextSnippet applied on its own, to nodes whose name, description
\* and value are of any length up to MaxTextLen.

MaxTextLen == 52

\* The string of n characters c.
Repeat(c, n) == [k \in 1..n |-> c]

\* The lengths a description or a value is given.
OtherLengths == {0, 1, MaxTextLen}

InitSnippet ==
  /\ page = CaptureNull
  /\ op = "none"
  /\ params = <<>>
  /\ outcome = NoOutcome
  /\ captures = 0
  /\ chain = NoChain
  /\ calls = NoCalls
  /\ calc = NoCalc

\* The snippet of a node is extracted.
Snippet ==
  /\ calc.fn = "none"
  /\ \E n \in 0..MaxTextLen, m \in OtherLengths, k \in OtherLengths :
       LET node == [name |-> RStr(Repeat("n", n)), description |-> RStr(Repeat("d", m)),
                    value |-> RStr(Repeat("v", k))]
       IN calc' = [fn |-> "extractTextSnippet", node |-> node,
                   textSnippet |-> extractTextSnippet(node)]
  /\ UNCHANGED <<page, op, params, outcome, captures, chain, calls>>

\* The client has the snippet.
ForgetSnippet ==
  /\ calc.fn = "extractTextSnippet"
  /\ calc' = NoCalc
  /\ UNCHANGED <<page, op, params, outcome, captures, chain, calls>>

NextSnippet == Snippet \/ ForgetSnippet

SpecSnippet == InitSnippet /\ [][NextSnippet]_vars

(* ------------------------- the paths of a tree ------------------------ *)

\* The AX paths one walk hands to generateSID, for trees of any shape whose
\* nodes have any of these roles: "button", "link", none, and "../button",
\* a role with a slash in it.

PathKinds == {"btn", "lnk", "none", "up"}

PathTrees ==
  UNION {{[parent |-> p, kind |-> k] : p \in Shapes(n), k \in [1..n -> PathKinds]}
           : n \in 1..MaxTreeNodes}

\* axPath of node i, as generateSID makes it of the segments the walk has
\* collected on the way down to i.
AxPath(t, i) == PosixJoinRoot(PathSegments(t, i))

InitPaths ==
  /\ page = CaptureNull
  /\ op = "none"
  /\ params = <<>>
  /\ outcome = NoOutcome
  /\ captures = 0
  /\ chain = NoChain
  /\ calls = NoCalls
  /\ calc = NoCalc

\* A tree is walked: each node is given its path.
Walk ==
  /\ calc.fn = "none"
  /\ \E t \in PathTrees :
       calc' = [fn |-> "walk", tree |-> t, axPath |-> [i \in 1..Size(t) |-> AxPath(t, i)]]
  /\ UNCHANGED <<page, op, params, outcome, captures, chain, calls>>

\* The walk is over.
ForgetWalk ==
  /\ calc.fn = "walk"
  /\ calc' = NoCalc
  /\ UNCHANGED <<page, op, params, outcome, captures, chain, calls>>

NextPaths == Walk \/ ForgetWalk

SpecPaths == InitPaths /\ [][NextPaths]_vars

(* ------------------------------ claims -------------------------------- *)

IsTree == page.kind = "tree"
SnapshotReturned == op = "sem_snapshot" /\ outcome.status = "returned"
QueryReturned == op = "sem_query" /\ outcome.status = "returned"

\* An optional string parameter counts as supplied when the handler sees it:
\* the handlers test it for truthiness, so an empty string is as good as none.
Supplied(x) == ParamTruthy(x)

NodeIds(list) == {list[k].node : k \in 1..Len(list)}
NoDuplicates(list) ==
  \A j, k \in 1..Len(list) : list[j].node = list[k].node => j = k

\* The unpaginated list: what the walk of a call with a max_nodes large
\* enough for the tree collects.
FullList(t, p) == Materialize(t, [p EXCEPT !.max_nodes = Size(t) + 1])

\* The client has followed next_cursor from a call without cursor to null.
ChainDone == SnapshotReturned /\ chain.on /\ Result(outcome).next_cursor = RNull

\* The nodes whose SID is S, and the nodes under them.
ScopeRoots(t, S) == {a \in 1..Size(t) : SidOf(t, a) = S}
UnderScope(t, S, i) == \E a \in ScopeRoots(t, S) : InSubtree(t, a, i)

\* The nodes the last call returned.
ReturnedNodes ==
  IF op = "sem_snapshot" THEN NodeIds(Result(outcome).nodes)
  ELSE NodeIds(Result(outcome).elements)

Unscoped(p) == [p EXCEPT !.within_sid = RUndef]

\* C1 (as stated): the pages obtained by following next_cursor from no cursor
\* to null concatenate to the full unpaginated list, whatever max_nodes is.
C1_ConcatenationIsFullList ==
  ChainDone => chain.acc = FullList(page.tree, params)

\* C1 (amended): the pages obtained by following next_cursor from no cursor to
\* null concatenate, in order and with no node duplicated or omitted, to the
\* list the walk collects for that max_nodes; this is the full unpaginated
\* list whenever that list has fewer than 5 x max_nodes nodes.
C1_PaginationComplete ==
  ChainDone =>
    /\ chain.acc = Materialize(page.tree, params)
    /\ NoDuplicates(chain.acc)
    /\ (Len(FullList(page.tree, params)) < 5 * params.max_nodes
          => chain.acc = FullList(page.tree, params))

C1_Witness ==
  /\ ChainDone
  /\ Supplied(params.cursor)
  /\ Len(chain.acc) >= 3
  /\ Len(Result(outcome).nodes) < Len(chain.acc)

IsBase10(str) == str # <<>> /\ \A k \in 1..Len(str) : IsDigit(str[k])

\* C2: a sem_snapshot call whose cursor is not a base-10 offset does not fail
\* and returns the page and the next_cursor of the same call without cursor.
C2_MalformedCursorFromZero ==
  (op = "sem_snapshot" /\ IsTree /\ params.cursor.t = "string"
     /\ ~IsBase10(params.cursor.v))
  => /\ outcome.status = "returned"
     /\ LET same == Result(snapshotOf([params EXCEPT !.cursor = RUndef], page.tree,
                                      Result(outcome).snapshot_id))
        IN /\ Result(outcome).nodes = same.nodes
           /\ Result(outcome).next_cursor = same.next_cursor

\* The reasons the scoring finds for node i, as one explanation.
ReasonsOf(t, i, p) == JoinComma(Scoring(Node(t, i), p).matchReasons)

\* C3: with explain set, explanations is as long as elements and
\* explanations[i] holds the reasons computed for the node of elements[i].
C3_ExplanationsAligned ==
  (QueryReturned /\ params.explain) =>
    LET r == Result(outcome)
    IN /\ r.explanations.t = "array"
       /\ Len(r.explanations.v) = Len(r.elements)
       /\ \A k \in 1..Len(r.elements) :
            r.explanations.v[k] = RStr(ReasonsOf(page.tree, r.elements[k].node, params))

\* C4: when the provider answers null or throws, the call of either tool
\* ends in an error after one capture attempt and emits no response line,
\* hence no node list and no sid list.
C4_CaptureFailureIsError ==
  (op # "none" /\ ~IsTree) =>
    /\ outcome.status = "threw"
    /\ outcome.error # <<>>
    /\ captures = 1
    /\ outcome.response = <<>>

C4_Witness ==
  /\ op = "sem_snapshot"
  /\ page = CaptureNull
  /\ outcome.status = "threw"
  /\ captures = 1

C6_ScopedWithinUnscoped ==
  /\ (ChainDone /\ Supplied(params.within_sid))
       => NodeIds(chain.acc) \subseteq NodeIds(Materialize(page.tree, Unscoped(params)))
  /\ (QueryReturned /\ Supplied(params.within_sid))
       => ReturnedNodes
            \subseteq NodeIds(Result(queryOf(Unscoped(params), page.tree)).elements)

\* The call with no within_sid returns every candidate it found.
UnscopedReturnsAll(t, p) ==
  Len(Result(queryOf(Unscoped(p), t)).elements) = Len(Found(t, Unscoped(p)).matches)

\* C6 (amended): all other parameters equal, the nodes sem_snapshot returns
\* under within_sid = S over all pages are among those it returns with no
\* within_sid provided the unpaginated list with no within_sid has fewer than
\* 5 x max_nodes nodes; the matches sem_query returns under S are among those
\* it returns with no within_sid provided that call returns every candidate
\* it found (it is not cut to one match or to max matches).
C6_ScopeMonotonicity ==
  /\ (ChainDone /\ Supplied(params.within_sid)
        /\ Len(FullList(page.tree, Unscoped(params))) < 5 * params.max_nodes)
       => NodeIds(chain.acc) \subseteq NodeIds(Materialize(page.tree, Unscoped(params)))
  /\ (QueryReturned /\ Supplied(params.within_sid)
        /\ UnscopedReturnsAll(page.tree, params))
       => ReturnedNodes
            \subseteq NodeIds(Result(queryOf(Unscoped(params), page.tree)).elements)

\* a scoped chain returned some, and fewer than the unscoped walk collects
C6_Witness ==
  /\ ChainDone
  /\ Supplied(params.within_sid)
  /\ chain.acc # <<>>
  /\ Len(chain.acc) < Len(Materialize(page.tree, Unscoped(params)))
  /\ Len(FullList(page.tree, Unscoped(params))) < 5 * params.max_nodes

Present(x) == ParamTruthy(x)

RoleContribution(node, p) ==
  IF Present(p.role)
       /\ Includes(ToLowerCase(getAXString(node.role)), ToLowerCase(p.role.v))
    THEN 50 ELSE 0

LabelContribution(node, p) ==
  IF ~Present(p.label) THEN 0
  ELSE IF Includes(ToLowerCase(getAXString(node.name)), ToLowerCase(p.label.v)) THEN 40
  ELSE IF Includes(ToLowerCase(getAXString(node.description)), ToLowerCase(p.label.v)) THEN 30
  ELSE 0

TextContribution(node, p) ==
  IF TextMatching(NoScore, p, getAXString(node.name), getAXString(node.description),
                  getAXString(node.value)).score > 0
    THEN 35 ELSE 0

RECURSIVE AttributesContribution(_, _)
AttributesContribution(attributes, entries) ==
  IF entries = <<>> THEN 0
  ELSE LET name == ToLowerCase(Head(entries)[1])
           hit == /\ name \in DOMAIN attributes
                  /\ ToLowerCase(attributes[name]) = ToLowerCase(Head(entries)[2])
       IN (IF hit THEN 20 ELSE 0) + AttributesContribution(attributes, Tail(entries))

AdditiveScore(node, p) ==
  RoleContribution(node, p) + LabelContribution(node, p) + TextContribution(node, p)
    + (IF p.attributes.t = "undefined" THEN 0
       ELSE AttributesContribution(extractAttributes(node), p.attributes.entries))

HasContent(node) ==
  \/ Truthy(getAXString(node.role))
  \/ Truthy(getAXString(node.name))
  \/ Truthy(getAXString(node.description))

\* The nodes in scope that are match candidates by the additive score.
AdditiveCandidates(t, p) ==
  {i \in 1..Size(t) :
     /\ Supplied(p.within_sid) => UnderScope(t, p.within_sid.v, i)
     /\ AdditiveScore(Node(t, i), p) > 0
     /\ HasContent(Node(t, i))}

OnlyPredicates(p, q) ==
  /\ p.role = q.role /\ p.label = q.label /\ p.text = q.text
  /\ p.attributes = q.attributes
  /\ ~Supplied(p.within_sid)

SingleButton == [parent |-> <<0>>, kind |-> <<"btn">>]

Ranked(t, p) == Sort(p.rank_by, Found(t, p).matches)

\* C9: with multiple false and a candidate, exactly the first match of the
\* ranked list is returned; with multiple true, its first min(max, number of
\* candidates) matches; sids[i] is the sid of elements[i].
C9_ResultShaping ==
  QueryReturned =>
    LET r == Result(outcome)
        ranked == Ranked(page.tree, params)
    IN /\ (~params.multiple /\ Len(ranked) >= 1) => r.elements = <<ranked[1]>>
       /\ params.multiple
            => r.elements = SubSeq(ranked, 1, Min(params.max, Len(ranked)))
       /\ Len(r.sids) = Len(r.elements)
       /\ \A k \in 1..Len(r.elements) : r.sids[k] = r.elements[k].sid

\* more candidates than max, cut to max
C9_Witness ==
  /\ QueryReturned
  /\ params.multiple
  /\ Len(Ranked(page.tree, params)) > params.max
  /\ Len(Result(outcome).elements) = params.max

\* C10: with multiple false and several candidates, the response still
\* reports the number of candidates found.
C10_SingleResultReportsCount ==
  (QueryReturned /\ ~params.multiple /\ Len(Found(page.tree, params).matches) >= 2)
  => \E k \in 1..Len(outcome.response) :
       /\ "count" \in DOMAIN outcome.response[k]
       /\ outcome.response[k].count = Len(Found(page.tree, params).matches)

\* The place of node n in the list the walk collects (traversal order).
TraversalIndex(list, n) == CHOOSE k \in 1..Len(list) : list[k].node = n

\* a is at or before b in the order of strings that compares them character
\* by character in the order of the collation, a prefix first.
SidAtOrBefore(a, b) ==
  \/ /\ Len(a) <= Len(b)
     /\ \A k \in 1..Len(a) : a[k] = b[k]
  \/ \E k \in 1..Min(Len(a), Len(b)) :
       /\ \A j \in 1..(k - 1) : a[j] = b[j]
       /\ CharRank(a[k]) < CharRank(b[k])

\* x may stand before y in the order of rank_by over the candidates found.
RanksAtOrBefore(rank_by, found, x, y) ==
  CASE rank_by = "semantic_score" ->
         \/ x.score > y.score
         \/ /\ x.score = y.score
            /\ TraversalIndex(found, x.node) <= TraversalIndex(found, y.node)
    [] rank_by = "visibility" -> x.confidence >= y.confidence
    [] rank_by = "proximity" -> SidAtOrBefore(x.sid, y.sid)

MatchesNoNode(t, p) == \A i \in 1..Size(t) : AdditiveScore(Node(t, i), p) = 0

\* C12: every match returned has a score > 0 and a role, label or description
\* that is not empty; a query whose predicates match no node returns, with
\* zero matches.
C12_CandidateInvariant ==
  /\ QueryReturned =>
       \A k \in 1..Len(Result(outcome).elements) :
         LET e == Result(outcome).elements[k]
         IN /\ e.score > 0
            /\ AdditiveScore(Node(page.tree, e.node), params) > 0
            /\ HasContent(Node(page.tree, e.node))
  /\ (op = "sem_query" /\ IsTree /\ MatchesNoNode(page.tree, params))
       => /\ outcome.status = "returned"
          /\ Result(outcome).elements = <<>>
          /\ Result(outcome).sids = <<>>

\* a node with nothing but a value matched the text predicate, in scope, and
\* was left out
C12_Witness ==
  /\ QueryReturned
  /\ params.text = RStr(sFortyTwo)
  /\ \E i \in 1..Size(page.tree) :
       /\ page.tree.kind[i] = "val"
       /\ AdditiveScore(Node(page.tree, i), params) > 0
       /\ Supplied(params.within_sid) => UnderScope(page.tree, params.within_sid.v, i)
  /\ Result(outcome).elements = <<>>

\* C13: for every match returned, 100 x confidence = min(score, 100), where
\* score is the sum of the contributions of the predicates; the confidence
\* lies in [0, 1] and is 1 for every score >= 100.  (Confidences are held in
\* hundredths.)
C13_ConfidenceNormalized ==
  QueryReturned =>
    \A k \in 1..Len(Result(outcome).elements) :
      LET e == Result(outcome).elements[k]
          score == AdditiveScore(Node(page.tree, e.node), params)
      IN /\ e.confidence = (IF score <= 100 THEN score ELSE 100)
         /\ e.confidence \in 0..100
         /\ score >= 100 => e.confidence = 100
         /\ op = "sem_query" /\ outcome.response[1].kind = "FoundBest"
              => outcome.response[1].confidence = e.confidence

\* a match of score 125, above 100, came back with confidence 1
C13_Witness ==
  /\ QueryReturned
  /\ \E k \in 1..Len(Result(outcome).elements) :
       /\ Result(outcome).elements[k].score = 125
       /\ Result(outcome).elements[k].confidence = 100

\* The number a string of decimal digits writes.
RECURSIVE DecimalValue(_)
DecimalValue(str) ==
  IF str = <<>> THEN 0
  ELSE 10 * DecimalValue(SubSeq(str, 1, Len(str) - 1)) + DigitValue(str[Len(str)])

\* The cursor of the call is an offset c >= 0: no cursor stands for 0.
HasOffset(p) == ~Supplied(p.cursor) \/ IsBase10(p.cursor.v)
OffsetOf(p) == IF Supplied(p.cursor) THEN DecimalValue(p.cursor.v) ELSE 0

\* What the page window asks of a call at offset c over list.
PageWindow(list, c, max_nodes, result) ==
  LET n == Len(list)
      last == IF c + max_nodes < n THEN c + max_nodes ELSE n
  IN /\ result.nodes = [k \in 1..(IF last > c THEN last - c ELSE 0) |-> list[c + k]]
     /\ Len(result.nodes) <= max_nodes
     /\ IF c + max_nodes < n
          THEN /\ result.next_cursor.t = "string"
               /\ IsBase10(result.next_cursor.v)
               /\ DecimalValue(result.next_cursor.v) = c + max_nodes
          ELSE result.next_cursor = RNull

\* C14: a sem_snapshot call at cursor offset c >= 0 over a materialized list
\* of length n returns exactly its elements [c, min(c + max_nodes, n)), at
\* most max_nodes of them, with next_cursor the decimal string of
\* c + max_nodes when c + max_nodes < n and null otherwise; over 3 nodes with
\* max_nodes = 1 the calls at offsets 0, 1 and 2 return the 1st, 2nd and 3rd
\* node with next_cursor "1", "2" and null.
C14_PageWindow ==
  (SnapshotReturned /\ HasOffset(params)) =>
    LET list == Materialize(page.tree, params)
        r == Result(outcome)
        c == OffsetOf(params)
    IN /\ PageWindow(list, c, params.max_nodes, r)
       /\ (Len(list) = 3 /\ params.max_nodes = 1 /\ c \in 0..2)
            => /\ r.nodes = <<list[c + 1]>>
               /\ r.next_cursor = (CASE c = 0 -> RStr(<<"1">>)
                                     [] c = 1 -> RStr(<<"2">>)
                                     [] c = 2 -> RNull)

\* the third call over three nodes, one node a page, returned the third node
\* and no cursor
C14_Witness ==
  /\ SnapshotReturned
  /\ chain.on
  /\ params.max_nodes = 1
  /\ params.cursor = RStr(<<"2">>)
  /\ Len(Materialize(page.tree, params)) = 3
  /\ Len(chain.acc) = 3
  /\ Result(outcome).next_cursor = RNull

\* The calls that have run to their end.
Done == {c \in Slots : calls[c].pc = "done"}

\* The snapshot_id a finished call drew, if it drew one.
SnapshotIdOf(call) ==
  IF call.tool = "sem_snapshot" /\ call.outcome.status = "returned"
    THEN Result(call.outcome).snapshot_id
    ELSE "snap_a1b2c3"

BothDerived == calc.fn = "generateSID twice"

\* The input that the second derivation was given another value for has
\* changed.
InputChanged == calc.second[calc.changed] # calc.first[calc.changed]

\* The words of a name in lower case: its runs of characters other than
\* white space.
RECURSIVE SplitWords(_, _, _)
SplitWords(s, word, words) ==
  IF s = <<>> THEN (IF word = <<>> THEN words ELSE Append(words, word))
  ELSE IF Head(s) \in WhiteSpace
    THEN SplitWords(Tail(s), <<>>, IF word = <<>> THEN words ELSE Append(words, word))
    ELSE SplitWords(Tail(s), Append(word, LowerChar(Head(s))), words)
LowerWords(s) == SplitWords(s, <<>>, <<>>)

\* Two names differ at most in letter case, in white space at their ends and
\* in the white space between their words.
SameUpToCaseAndSpace(a, b) == LowerWords(a) = LowerWords(b)

C17_NormalizationStabilizesSid ==
  (BothDerived /\ calc.changed = "label"
     /\ SameUpToCaseAndSpace(calc.first.label, calc.second.label))
    => calc.second.sid = calc.first.sid

\* " ok" and "OK", which differ in case and in leading white space, have the
\* same SID.
C17_Witness ==
  /\ BothDerived
  /\ calc.changed = "label"
  /\ calc.first.label = <<" ", "o", "k">>
  /\ calc.second.label = <<"O", "K">>
  /\ calc.second.sid = calc.first.sid

(* C18 *)

\* C18: normalising a normalised name gives it back.
C18_NormalizeIdempotent ==
  calc.fn = "normalize twice" => calc.normalizedLabel = calc.once

\* " O  k" was normalised to "o k", and "o k" again to "o k".
C18_Witness ==
  /\ calc.fn = "normalize twice"
  /\ calc.name = <<" ", "O", " ", " ", "k">>
  /\ calc.once = <<"o", " ", "k">>
  /\ calc.normalizedLabel = <<"o", " ", "k">>

(* C19 *)

\* The predicate that calc.params has and calc.before has not, alone.
AddedPredicate ==
  LET p == calc.before
      q == calc.params
  IN [role |-> IF q.role # p.role THEN q.role ELSE RUndef,
      label |-> IF q.label # p.label THEN q.label ELSE RUndef,
      text |-> IF q.text # p.text THEN q.text ELSE RUndef,
      attributes |-> IF q.attributes # p.attributes
                       THEN Attrs(<<q.attributes.entries[Len(q.attributes.entries)]>>)
                       ELSE RUndef]

\* The node matches at least one predicate of p.
MatchesSome(node, p) == AdditiveScore(node, p) > 0

\* C19: when a node matches at least one predicate of a set, adding one
\* further predicate that the node matches too never decreases its score.
C19_ScoreMonotone ==
  (calc.fn = "score more"
     /\ MatchesSome(KindNode(calc.kind), calc.before)
     /\ MatchesSome(KindNode(calc.kind), AddedPredicate))
    => calc.score >= calc.scoreBefore

\* The button matched the role "button" with score 50; with the label "sub"
\* added, which it matches too, its score is 90.
C19_Witness ==
  /\ calc.fn = "score more"
  /\ calc.kind = "btn"
  /\ calc.before = [NoPredicates EXCEPT !.role = RStr(sButton)]
  /\ calc.params = [NoPredicates EXCEPT !.role = RStr(sButton), !.label = RStr(sSub)]
  /\ calc.scoreBefore = 50
  /\ calc.score = 90

(* C20 *)

\* What a finished call gave its client, but for the snapshot_id: the error
\* it threw, or the lines of its response with the snapshot_id left out.
WithoutSnapshotId(call) ==
  IF call.outcome.status # "returned" THEN [error |-> call.outcome.error]
  ELSE IF call.tool = "sem_snapshot"
    THEN [found |-> call.outcome.response[2],
          returning |-> call.outcome.response[3],
          nodes |-> Result(call.outcome).nodes,
          next_cursor |-> Result(call.outcome).next_cursor]
    ELSE [response |-> call.outcome.response]

\* Two calls of the same tool with identical parameters on an identical tree.
SameCall(c, d) ==
  /\ calls[c].tool = calls[d].tool
  /\ calls[c].params = calls[d].params
  /\ calls[c].accessibilityTree = calls[d].accessibilityTree

SourceText(node) ==
  IF node.name.v # <<>> THEN node.name.v
  ELSE IF node.description.v # <<>> THEN node.description.v
  ELSE node.value.v

\* C21: every textSnippet is at most 50 characters long, the ellipsis
\* counted, and a source text of at most 50 characters is returned unchanged.
C21_SnippetAtMostFifty ==
  calc.fn = "extractTextSnippet" =>
    /\ Len(calc.textSnippet) <= 50
    /\ Len(SourceText(calc.node)) <= 50 => calc.textSnippet = SourceText(calc.node)

(* C22 *)

\* The names in a fields list.
Named(fields) == {fields[k] : k \in 1..Len(fields)}

\* The tree nodes of a list of node objects, in the order of the list.
NodeOrder(list) == [k \in 1..Len(list) |-> list[k].node]

\* The call the client made, asked for every field instead.
WithAllFields == semSnapshot([params EXCEPT !.fields = AllFields], page, Result(outcome).snapshot_id)

\* C22: every node object sem_snapshot returns holds only fields the caller's
\* list names, and the list of fields changes neither the nodes materialized
\* (their number, which nodes, in which order) nor next_cursor.
C22_FieldSelection ==
  SnapshotReturned =>
    /\ \A k \in 1..Len(Result(outcome).nodes) :
         DOMAIN Result(outcome).nodes[k].data \subseteq Named(params.fields)
    /\ WithAllFields.status = "returned"
    /\ outcome.response[2] = WithAllFields.response[2]
    /\ NodeOrder(Result(outcome).nodes) = NodeOrder(Result(WithAllFields).nodes)
    /\ Result(outcome).next_cursor = Result(WithAllFields).next_cursor

\* a call for role and textSnippet alone returned a button with exactly these
\* two fields and a next_cursor, where the call for all fields gives six
C22_Witness ==
  /\ SnapshotReturned
  /\ params.fields = <<"role", "textSnippet">>
  /\ Len(Result(outcome).nodes) >= 1
  /\ DOMAIN Result(outcome).nodes[1].data = {"role", "textSnippet"}
  /\ DOMAIN Result(WithAllFields).nodes[1].data = Named(AllFields)
  /\ Result(outcome).next_cursor # RNull

(* C23 *)

\* The nodes of the subtree of i in depth-first pre-order: a parent before
\* its descendants, siblings in the order of their child index.
RECURSIVE PreOrder(_, _)
RECURSIVE PreOrderOfEach(_, _)
PreOrder(t, i) == <<i>> \o PreOrderOfEach(t, Children(t, i))
PreOrderOfEach(t, children) ==
  IF children = <<>> THEN <<>>
  ELSE PreOrder(t, Head(children)) \o PreOrderOfEach(t, Tail(children))

\* The node carries a role, a label or a text snippet that is not empty.
CarriesContent(node) ==
  \/ getAXString(node.role) # <<>>
  \/ getAXString(node.name) # <<>>
  \/ getAXString(node.description) # <<>>
  \/ getAXString(node.value) # <<>>

CarriesContentIn(t, i) == CarriesContent(Node(t, i))

\* The reference list: the nodes with content, in pre-order.
RECURSIVE Keep(_, _)
Keep(t, order) ==
  IF order = <<>> THEN <<>>
  ELSE (IF CarriesContentIn(t, Head(order)) THEN <<Head(order)>> ELSE <<>>) \o Keep(t, Tail(order))
Reference(t) == Keep(t, PreOrder(t, 1))

\* The ancestors of a node and the node, from the child of the root down.
RECURSIVE Lineage(_, _)
Lineage(t, i) == IF i = 1 THEN <<>> ELSE Append(Lineage(t, t.parent[i]), i)

\* The list is made of elements of ref, in the order of ref.
RECURSIVE IsSubsequence(_, _)
IsSubsequence(list, ref) ==
  IF list = <<>> THEN TRUE
  ELSE IF ref = <<>> THEN FALSE
  ELSE IF Head(list) = Head(ref) THEN IsSubsequence(Tail(list), Tail(ref))
  ELSE IsSubsequence(list, Tail(ref))

UnscopedSnapshot == SnapshotReturned /\ ~Supplied(params.within_sid)

\* The SID of each node returned is the SID of its path from the root, with
\* one segment for each ancestor, omitted or not.
SidsCountOmitted ==
  \A k \in 1..Len(Result(outcome).nodes) :
    LET e == Result(outcome).nodes[k]
    IN /\ Len(PathSegments(page.tree, e.node)) = Len(Lineage(page.tree, e.node))
       /\ "sid" \in DOMAIN e.data => e.data.sid = SidOf(page.tree, e.node)

\* C23 as stated: with no within_sid the list materialized is exactly the
\* pre-order sequence of the nodes that carry a role, a label or a snippet,
\* the children of an omitted node being visited under paths that count it.
C23_MaterializedIsReference ==
  UnscopedSnapshot =>
    /\ NodeOrder(Materialize(page.tree, params)) = Reference(page.tree)
    /\ outcome.response[2].count = Len(Reference(page.tree))
    /\ SidsCountOmitted

\* C23: with no within_sid the list materialized holds nodes of that
\* pre-order sequence only, in its order, and is exactly that sequence when
\* the sequence has at most 5 x max_nodes nodes (beyond that the early stop
\* may cut the walk); the children of an omitted node are visited under
\* paths that count it.
C23_ProjectionReference ==
  UnscopedSnapshot =>
    LET list == NodeOrder(Materialize(page.tree, params))
        ref == Reference(page.tree)
    IN /\ outcome.response[2].count = Len(list)
       /\ IsSubsequence(list, ref)
       /\ Len(ref) <= 5 * params.max_nodes => list = ref
       /\ SidsCountOmitted

\* under a root with no content and a child with none either, the button at
\* depth two is the one node materialized, with the SID of its path of two
\* segments
C23_Witness ==
  /\ UnscopedSnapshot
  /\ IsTree
  /\ page.tree.parent = <<0, 1, 2>>
  /\ page.tree.kind = <<"none", "none", "btn">>
  /\ params.fields = AllFields
  /\ outcome.response[2].count = 1
  /\ Len(Result(outcome).nodes) = 1
  /\ Result(outcome).nodes[1].node = 3
  /\ Result(outcome).nodes[1].data.sid = SidOf(page.tree, 3)
  /\ Len(PathSegments(page.tree, 3)) = 2

(* C24 *)

\* j is a sibling of a that the walk visits after a.
LaterSibling(t, a, j) == j > a /\ a > 1 /\ t.parent[j] = t.parent[a]

\* The nodes in scope if the scope, once on, stayed on for the later
\* siblings of the scoping node (and what is under them).
UnderPersistingScope(t, S, i) ==
  \/ UnderScope(t, S, i)
  \/ \E a \in ScopeRoots(t, S), j \in 1..Size(t) : LaterSibling(t, a, j) /\ InSubtree(t, j, i)

\* A scoped sem_snapshot call on a tree that the early stop does not cut.
ScopedSnapshot ==
  /\ SnapshotReturned
  /\ Supplied(params.within_sid)
  /\ Size(page.tree) <= 5 * params.max_nodes

\* C24 as stated: scope, once turned on at the node whose SID is within_sid,
\* reaches all its descendants and stays on for the siblings of that node
\* visited later.
C24_ScopeStaysOn ==
  ScopedSnapshot =>
    NodeIds(Materialize(page.tree, params))
      = {i \in 1..Size(page.tree) :
           CarriesContentIn(page.tree, i) /\ UnderPersistingScope(page.tree, params.within_sid.v, i)}

\* C24: scope, once turned on at the node whose SID is within_sid, reaches
\* all its descendants, and those only: a sibling of that node visited later
\* is out of scope again.  sem_snapshot materializes exactly the content
\* nodes under the scoping node, sem_query finds exactly the candidates
\* under it.
C24_ScopeOfSubtree ==
  /\ ScopedSnapshot =>
       /\ NodeIds(Materialize(page.tree, params))
            = {i \in 1..Size(page.tree) :
                 CarriesContentIn(page.tree, i) /\ UnderScope(page.tree, params.within_sid.v, i)}
       /\ outcome.response[2].count = Len(Materialize(page.tree, params))
  /\ (QueryReturned /\ Supplied(params.within_sid)) =>
       /\ ReturnedNodes \subseteq AdditiveCandidates(page.tree, params)
       /\ outcome.response[1].kind = "FoundMatches"
            => outcome.response[1].count = Cardinality(AdditiveCandidates(page.tree, params))

\* the scope is the first child of the root: the one node found is that
\* child, and its later sibling, a button as well, is not
C24_Witness ==
  /\ ScopedSnapshot
  /\ page.tree.parent = <<0, 1, 1>>
  /\ page.tree.kind = <<"lnk", "btn", "btn">>
  /\ params.within_sid = RStr(SidOf(page.tree, 2))
  /\ outcome.response[2].count = 1
  /\ params.cursor = RUndef
  /\ NodeOrder(Result(outcome).nodes) = <<2>>

(* C25 *)

\* C25: once 5 x max_nodes nodes are materialized the walk stops, so the
\* list materialized never holds more than 5 x max_nodes nodes; and the list
\* is the same whatever the cursor.
C25_EarlyStopBound ==
  SnapshotReturned =>
    /\ outcome.response[2].count <= 5 * params.max_nodes
    /\ outcome.response[2].count = Len(Materialize(page.tree, [params EXCEPT !.cursor = RUndef]))

(* C26 *)

\* C26: within one walk, whatever the roles of the nodes, no two distinct
\* nodes are given the same AX path.
C26_PathsUnique ==
  calc.fn = "walk" =>
    \A i, j \in 1..Size(calc.tree) : calc.axPath[i] = calc.axPath[j] => i = j

(* C27 *)

Scored == calc.fn \in {"score", "score more"}

\* The points of the score that the role, the label and the attributes do
\* not account for.
PointsOfText ==
  LET node == KindNode(calc.kind)
      p == calc.params
  IN calc.score - RoleContribution(node, p) - LabelContribution(node, p)
       - (IF p.attributes.t = "undefined" THEN 0
          ELSE AttributesContribution(extractAttributes(node), p.attributes.entries))

\* label + description + value
Concatenation(node) ==
  getAXString(node.name) \o getAXString(node.description) \o getAXString(node.value)

\* C27: the text predicate contributes its 35 points exactly when it is,
\* case apart, a substring of label + description + value.
C27_TextOfConcatenation ==
  Scored =>
    PointsOfText =
      (IF /\ Present(calc.params.text)
          /\ Includes(ToLowerCase(Concatenation(KindNode(calc.kind))),
                      ToLowerCase(calc.params.text.v))
         THEN 35 ELSE 0)

(* C28 *)

\* The kinds of the lines of a response, in order.
LineKinds(o) == [k \in 1..Len(o.response) |-> o.response[k].kind]

\* C28: a cursor is an offset and nothing else: a sem_snapshot call with a
\* cursor succeeds on whatever tree its own capture gives, with the lines of
\* any other call (no error, no warning), and returns the nodes at that
\* offset of the list made from that tree, also when an earlier call, the
\* one that gave the cursor, was answered from another tree.
C28_StaleCursor ==
  \A c \in Done :
    (/\ calls[c].tool = "sem_snapshot"
     /\ calls[c].accessibilityTree.kind = "tree"
     /\ HasOffset(calls[c].params))
      => /\ calls[c].outcome.status = "returned"
         /\ LineKinds(calls[c].outcome) = <<"Created", "Found", "Returning", "Result">>
         /\ PageWindow(Materialize(calls[c].accessibilityTree.tree, calls[c].params),
                       OffsetOf(calls[c].params), calls[c].params.max_nodes,
                       Result(calls[c].outcome))

\* the first call returned the link at the root with next_cursor "1"; the
\* page then became two nested buttons; the call with cursor "1" returned the
\* inner button, so that the outer button is on neither page
C28_Witness ==
  /\ Done = Slots
  /\ calls[1].tool = "sem_snapshot"
  /\ calls[2].tool = "sem_snapshot"
  /\ calls[1].params.cursor = RUndef
  /\ calls[2].params.cursor = RStr(sOne)
  /\ calls[1].accessibilityTree = CaptureTree(LinkOverButton)
  /\ calls[2].accessibilityTree = CaptureTree(TwoButtons)
  /\ calls[1].outcome.status = "returned"
  /\ calls[2].outcome.status = "returned"
  /\ Result(calls[1].outcome).next_cursor = RStr(sOne)
  /\ NodeOrder(Result(calls[1].outcome).nodes) = <<1>>
  /\ NodeOrder(Result(calls[2].outcome).nodes) = <<2>>
  /\ Result(calls[2].outcome).next_cursor = RNull
  /\ Result(calls[1].outcome).nodes[1].data.sid # SidOf(TwoButtons, 1)
  /\ Result(calls[2].outcome).nodes[1].data.sid # SidOf(TwoButtons, 1)

(* C29 *)

\* The parameters of a sem_snapshot call for every field of every node of
\* the tree t under within_sid w, in one page.
WholeSnapshot(t, w) ==
  [within_sid |-> w, fields |-> AllFields, max_nodes |-> Size(t) + 1, cursor |-> RUndef]

\* The SID sem_snapshot assigns to node i of t, under within_sid w: the
\* SIDs of the node objects it makes for i.
SnapshotSids(t, w, i) ==
  LET list == Materialize(t, WholeSnapshot(t, w))
  IN {list[k].data.sid : k \in {j \in 1..Len(list) : list[j].node = i}}

\* C29: on the same tree sem_snapshot and sem_query give a node the same
\* SID, with within_sid or without; so a sid that sem_query returns, handed
\* to sem_snapshot as within_sid on the same tree, scopes the snapshot to
\* exactly the node it was returned for and the descendants of that node.
C29_SidAgreement ==
  /\ SnapshotReturned =>
       \A k \in 1..Len(Result(outcome).nodes) :
         LET e == Result(outcome).nodes[k]
         IN "sid" \in DOMAIN e.data
              => SnapshotSids(page.tree, RUndef, e.node) = {e.data.sid}
  /\ QueryReturned =>
       \A k \in 1..Len(Result(outcome).elements) :
         LET e == Result(outcome).elements[k]
         IN /\ SnapshotSids(page.tree, RUndef, e.node) = {e.sid}
            /\ SnapshotSids(page.tree, RStr(e.sid), e.node) = {e.sid}
            /\ Result(outcome).sids[k] = e.sid
            /\ NodeIds(Materialize(page.tree, WholeSnapshot(page.tree, RStr(e.sid))))
                 = {i \in 1..Size(page.tree) :
                      InSubtree(page.tree, e.node, i) /\ CarriesContentIn(page.tree, i)}

\* a scoped sem_query returned the button in the middle of link, button,
\* button: its sid as within_sid scopes sem_snapshot to the two buttons
C29_Witness ==
  /\ QueryReturned
  /\ Supplied(params.within_sid)
  /\ page.tree.parent = <<0, 1, 2>>
  /\ page.tree.kind = <<"lnk", "btn", "btn">>
  /\ Len(Result(outcome).elements) >= 1
  /\ Result(outcome).elements[1].node = 2
  /\ NodeOrder(Materialize(page.tree, WholeSnapshot(page.tree, RStr(Result(outcome).sids[1]))))
       = <<2, 3>>

(* C30 *)

\* The last call returned the last page.
AtEnd ==
  /\ op = "sem_snapshot"
  /\ outcome.status = "returned"
  /\ Result(outcome).next_cursor = RNull

\* The least number of pages of max_nodes nodes that hold n nodes.
PagesFor(n, max_nodes) == (n + max_nodes - 1) \div max_nodes

\* Each next_cursor returned is a number above the offset of the call that
\* returned it, and a client that started without a cursor has made at most
\* as many calls as the list has pages (one call for an empty list).
Advances ==
  SnapshotReturned =>
    /\ Result(outcome).next_cursor # RNull
         => /\ ~StartIndex(params.cursor).nan
            /\ IsBase10(Result(outcome).next_cursor.v)
            /\ DecimalValue(Result(outcome).next_cursor.v) > StartIndex(params.cursor).val
    /\ chain.on
         => LET n == Len(Materialize(page.tree, params))
            IN chain.calls <= (IF n = 0 THEN 1 ELSE PagesFor(n, params.max_nodes))

\* C30: on a fixed tree every next_cursor is above the offset of the call
\* that returned it, a client that follows next_cursor from no cursor makes
\* at most ceil(n / max_nodes) calls over a list of n nodes, and from any
\* cursor it reaches a call that returns no next_cursor.
C30_PaginationTerminates == [](Advances) /\ (Pending ~> AtEnd)

\* the sixth call over a list of six nodes, one node a page, returned the
\* last of them and no next_cursor
C30_Witness ==
  /\ AtEnd
  /\ chain.on
  /\ chain.calls = 6
  /\ params.max_nodes = 1
  /\ Len(chain.acc) = 6
  /\ params.cursor = RStr(<<"5">>)

====
